---- MODULE Spec2Model ----
(***************************************************************************)
(* A model of the yahoo_crawler package: the pagination loop of            *)
(* ScreenerCrawler.crawl, the two quote caches (QuoteCache and             *)
(* RedisQuoteCache) and the job executor run_crawl_job.                    *)
(*                                                                         *)
(* Strings are sequences of character codes (ASCII code points), so that   *)
(* str.strip, str.lower and Python's ordering of strings are computed and  *)
(* not assumed.  Optional values (None or a value) are sequences of length *)
(* at most one: None is << >> and a value v is << v >>.                    *)
(***************************************************************************)
EXTENDS Integers, Sequences, FiniteSets, TLC

VARIABLES
    \* ---- the Page Source seen by one crawl call
    pages,              \* the page contents the source can serve, in order
    loop_to,            \* where "next" leads from the last page (0: no next)
    src_index,          \* the page currently rendered
    \* ---- ScreenerCrawler.crawl: arguments, locals, position
    crawl_region,       \* the region argument
    max_pages,          \* None or << n >>
    crawl_pc,           \* "idle", "loop", "returned", "raised"
    crawl_error,        \* the exception a raised call ended with
    by_symbol,          \* dict symbol -> quote
    parsed_pages_cache, \* dict page key -> quotes
    page_number,
    last_signature,     \* None or << tuple of symbols >>
    crawl_result,       \* the list returned
    \* ---- instrumentation of the collaborators (the counters of the tests)
    next_page_calls,
    fetch_calls,
    parse_calls,
    visited,            \* the page contents fetched so far, in visit order
    other,              \* a second call of crawl under way at the same time
    \* ---- the quote cache
    now,                \* the clock, in ticks
    cache_kind,         \* "local" (QuoteCache) or "redis" (RedisQuoteCache)
    cache_store,        \* cache file name, or Redis key, -> the text stored
    cache_op,           \* the last load or save: its arguments
    cache_ret,          \* how it ended: a value, None or an exception
    \* ---- run_crawl_job
    job_call,           \* the last call: its params and what its collaborators do
    job_ret,            \* how it ended: a CrawlExecutionResult or an exception
    sink_file,          \* None, or << the records CsvWriter.write wrote >>
    drivers_created,    \* WebDriverFactory.create calls of the last job
    drivers_quit,       \* client.close calls of the last job
    \* ---- the API: the job table of api.py and the threads that use it
    jobs,               \* _jobs: job id -> the dict of the job
    jobs_lock,          \* _jobs_lock: 0 when free, or the job whose worker holds it
    workers,            \* job id -> the executor task _run_crawl_job_async of the job
    query,              \* the request thread in crawl_job_status
    \* ---- the cache file of one region, as threads that load and save see it
    disk,               \* None, or << the bytes of the file >>
    saver,              \* the thread in QuoteCache.save
    writers,            \* the threads in QuoteCache.save of one region at once
    loader,             \* the thread in QuoteCache.load
    \* ---- calls of the client, of the synchronous endpoint and of the CLI
    client,             \* the last call of YahooFinanceClient and how it ended
    sync_call,          \* the last POST /crawl: environment, params, response
    cli_call            \* the last run of main: arguments, params, exit code

crawl_vars == << pages, loop_to, src_index, crawl_region, max_pages, crawl_pc,
                 crawl_error, by_symbol, parsed_pages_cache, page_number,
                 last_signature, crawl_result, next_page_calls, fetch_calls,
                 parse_calls, visited, other >>

cache_vars == << now, cache_kind, cache_store, cache_op, cache_ret >>

job_vars == << job_call, job_ret, sink_file, drivers_created, drivers_quit >>

api_vars == << jobs, jobs_lock, workers, query >>

file_vars == << disk, saver, loader, writers >>

call_vars == << client, sync_call, cli_call >>

vars == << crawl_vars, cache_vars, job_vars, api_vars, file_vars, call_vars >>

None == << >>
Some(v) == << v >>

----------------------------------------------------------------------------
(* Calls of the cache and of the job, and how they ended *)

\* a call of load or save; store_error tells that the file system or the
\* Redis server failed the call
CacheCall(op, region, ttl_minutes, records, at, store_error) ==
    [op |-> op, region |-> region, ttl_minutes |-> ttl_minutes,
     records |-> records, at |-> at, store_error |-> store_error]

NoCacheCall == CacheCall("none", << >>, 0, << >>, 0, FALSE)

\* return value: the list load returns, or the location save returns
Returns(value) == [kind |-> "value", value |-> value, error |-> ""]
ReturnsNone == [kind |-> "none", value |-> << >>, error |-> ""]
Raises(error) == [kind |-> "raise", value |-> << >>, error |-> error]
NoReturn == [kind |-> "idle", value |-> << >>, error |-> ""]

CacheIdle ==
    /\ now = 0
    /\ cache_kind = "local"
    /\ cache_store = << >>
    /\ cache_op = NoCacheCall
    /\ cache_ret = NoReturn

NoJobReturn == [kind |-> "idle", source |-> "", total_records |-> 0, error |-> ""]

JobIdle ==
    /\ job_call = None
    /\ job_ret = NoJobReturn
    /\ sink_file = None
    /\ drivers_created = 0
    /\ drivers_quit = 0

\* no request thread is in crawl_job_status
NoQuery == [pc |-> "idle", job_id |-> 0, found |-> FALSE, code |-> 0, body |-> << >>]

\* the API as the module leaves it: no job, the lock free
ApiIdle ==
    /\ jobs = << >>
    /\ jobs_lock = 0
    /\ workers = << >>
    /\ query = NoQuery

\* no thread is in save, none in load
NoSave == [pc |-> "idle", text |-> << >>, records |-> << >>]
NoLoad == [pc |-> "idle", bufsize |-> 0, data |-> << >>, ret |-> NoReturn,
           candidates |-> {}]
NoWrite == [pc |-> "idle", text |-> << >>, records |-> << >>, at |-> 0, order |-> 0]

\* the threads that save one region at once, none of them in save yet
NoWriters == << NoWrite, NoWrite >>
SaveThreads == DOMAIN NoWriters

FileIdle ==
    /\ disk = << >>
    /\ saver = NoSave
    /\ loader = NoLoad
    /\ writers = NoWriters

\* no call of the client, of the synchronous endpoint or of the CLI was made
NoClientCall ==
    [op |-> "none", outcomes |-> << >>, ret |-> "idle", error |-> "", tries |-> 0,
     failed |-> {}]

\* os.environ, as far as the cache settings go: each variable unset (None)
\* or set
Environ(ttl, url, prefix) ==
    [YAHOO_CRAWLER_CACHE_TTL_MINUTES |-> ttl, YAHOO_CRAWLER_REDIS_URL |-> url,
     YAHOO_CRAWLER_REDIS_KEY_PREFIX |-> prefix]

NoFrontCall ==
    [called |-> FALSE, environ |-> Environ(None, None, None), cache_ttl_minutes |-> 0,
     redis_url |-> "", redis_key_prefix |-> "", code |-> 0, detail |-> ""]

CallIdle ==
    /\ client = NoClientCall
    /\ sync_call = NoFrontCall
    /\ cli_call = NoFrontCall

----------------------------------------------------------------------------
(* Strings *)

\* str < str in Python: lexicographic by code point
RECURSIVE StrLess(_, _)
StrLess(a, b) ==
    IF b = << >> THEN FALSE
    ELSE IF a = << >> THEN TRUE
    ELSE IF Head(a) # Head(b) THEN Head(a) < Head(b)
    ELSE StrLess(Tail(a), Tail(b))

\* sorted(keys): the ascending list of a finite set of strings
RECURSIVE Sorted(_)
Sorted(S) ==
    IF S = {} THEN << >>
    ELSE LET m == CHOOSE x \in S : \A y \in S \ {x} : StrLess(x, y)
         IN  << m >> \o Sorted(S \ {m})

SeqMin(a, b) == IF a < b THEN a ELSE b

\* list[:n]
Prefix(s, n) == SubSeq(s, 1, SeqMin(n, Len(s)))

----------------------------------------------------------------------------
(* Bounds of the model *)

\* the longest list of page contents a Page Source holds
MaxListed == 3
\* the largest max_pages argument tried
MaxLimit == 3
\* page_number and the call counters stop counting here; with max_pages
\* unset page_number is only logged, and a limited crawl stops at
\* max_pages <= MaxLimit < MaxCount, so no decision reads a saturated value
MaxCount == 5

Bump(n) == IF n < MaxCount THEN n + 1 ELSE n

----------------------------------------------------------------------------
(* Page contents.  A page is the list of its table rows, each row the text  *)
(* of its ticker, name and price cells; a missing cell is the empty string. *)

Row(s, n, p) == [symbol |-> s, name |-> n, price |-> p]

RowA1 == Row(<<65>>, <<78>>, <<49>>)
RowA2 == Row(<<65>>, <<78>>, <<50>>)
RowB1 == Row(<<66>>, <<78>>, <<49>>)
RowC1 == Row(<<67>>, <<78>>, <<49>>)
RowD1 == Row(<<68>>, <<78>>, <<49>>)
RowE1 == Row(<<69>>, <<78>>, <<49>>)
\* a row whose name cell is missing, and one whose ticker cell is missing
RowNoName == Row(<<67>>, << >>, <<49>>)
RowNoSymbol == Row(<< >>, <<78>>, <<49>>)

PagePool ==
    { << >>,
      << RowNoName >>,
      << RowA1 >>,
      << RowA2 >>,
      << RowB1 >>,
      << RowB1, RowA1 >>,
      << RowA1, RowA2 >>,
      << RowNoSymbol, RowC1 >>,
      << RowA1, RowB1, RowC1, RowD1 >>,
      << RowA1, RowB1, RowC1, RowE1 >> }

RECURSIVE SeqsUpTo(_, _)
SeqsUpTo(S, n) ==
    IF n = 0 THEN { << >> }
    ELSE LET shorter == SeqsUpTo(S, n - 1)
         IN  shorter \cup { Append(q, x) : q \in { r \in shorter : Len(r) = n - 1 }, x \in S }

PageLists == SeqsUpTo(PagePool, MaxListed) \ { << >> }

\* the region arguments tried: "", " " and "A"
CrawlRegions == { << >>, <<32>>, <<65>> }

MaxPagesArgs == { None } \cup { Some(n) : n \in 1..MaxLimit }

----------------------------------------------------------------------------
(* The Page Source: YahooFinanceClient as crawl sees it.  It holds a list   *)
(* of page contents; "next" leads from page i to page i+1 and from the last *)
(* page to page loop_to, or nowhere when loop_to = 0 (the button is         *)
(* disabled on the last page).                                              *)

get_current_page_html(ps, idx) == ps[idx]

has_next_page(ps, lt, idx) == idx < Len(ps) \/ lt # 0

go_to_next_page(ps, lt, idx) == IF idx < Len(ps) THEN idx + 1 ELSE lt

\* str.strip() of Python, on the whitespace the model has (the space)
RECURSIVE LStrip(_)
LStrip(s) == IF s # << >> /\ Head(s) = 32 THEN LStrip(Tail(s)) ELSE s

RECURSIVE RStrip(_)
RStrip(s) ==
    IF s # << >> /\ s[Len(s)] = 32 THEN RStrip(SubSeq(s, 1, Len(s) - 1)) ELSE s

Strip(s) == RStrip(LStrip(s))

----------------------------------------------------------------------------
(* ScreenerParser.parse_quotes and the helpers of the loop *)

\* a row missing its symbol or its name is skipped
RECURSIVE parse_quotes(_)
parse_quotes(html) ==
    IF html = << >> THEN << >>
    ELSE LET row == Head(html)
             rest == parse_quotes(Tail(html))
         IN  IF row.symbol = << >> \/ row.name = << >> THEN rest
             ELSE << row >> \o rest

\* md5(page_html).hexdigest(): one key per content (collisions are not modelled)
page_key(html) == html

\* the lookup with an empty list taken for a miss ("if not quotes")
CacheGet_EmptyIsMiss(cache, key) ==
    IF key \in DOMAIN cache /\ cache[key] # << >> THEN Some(cache[key]) ELSE None

\* parsed_pages_cache.get(page_key)
CacheGet(cache, key) == IF key \in DOMAIN cache THEN Some(cache[key]) ELSE None

DictPut(d, k, v) == [x \in DOMAIN d \cup {k} |-> IF x = k THEN v ELSE d[x]]

\* the merge had it overwritten: the last occurrence of a symbol wins
RECURSIVE MergeQuotes_LastWins(_, _)
MergeQuotes_LastWins(by, quotes) ==
    IF quotes = << >> THEN by
    ELSE MergeQuotes_LastWins(DictPut(by, Head(quotes).symbol, Head(quotes)), Tail(quotes))

\* for quote in quotes: if quote.symbol not in by_symbol: by_symbol[...] = quote
RECURSIVE MergeQuotes(_, _)
MergeQuotes(by, quotes) ==
    IF quotes = << >> THEN by
    ELSE LET q == Head(quotes)
         IN  MergeQuotes(IF q.symbol \notin DOMAIN by THEN DictPut(by, q.symbol, q) ELSE by,
                         Tail(quotes))

\* tuple([quote.symbol for quote in quotes[:3]])
Signature(quotes) == [i \in 1..Len(Prefix(quotes, 3)) |-> quotes[i].symbol]

----------------------------------------------------------------------------
(* Guards of the loop *)

\* the guard with its has_next test inverted
LoopGuard_NotHasNext(sig, last, has_next) == sig # << >> /\ last = Some(sig) /\ ~has_next

\* a loop with no guard
LoopGuard_Never(sig, last, has_next) == FALSE

\* the guard firing on a signature that differs from the last one
LoopGuard_OnChange(sig, last, has_next) ==
    sig # << >> /\ last # None /\ last # Some(sig) /\ has_next

\* the guard without its test for an empty signature
LoopGuard_EmptyToo(sig, last, has_next) == last = Some(sig) /\ has_next

\* current_signature and current_signature == last_signature and has_next_page
LoopGuard(sig, last, has_next) == sig # << >> /\ last = Some(sig) /\ has_next

\* a loop with no page limit
LimitReached_Never(mp, pn) == FALSE

\* the limit compared one page late
LimitReached_OffByOne(mp, pn) == mp # None /\ pn > mp[1]

\* max_pages is not None and page_number >= max_pages
LimitReached(mp, pn) == mp # None /\ pn >= mp[1]

\* the return with the symbols in descending order
SortedQuotes_Descending(by) ==
    LET symbols == Sorted(DOMAIN by)
    IN  [i \in 1..Len(symbols) |-> by[symbols[Len(symbols) + 1 - i]]]

\* [by_symbol[symbol] for symbol in sorted(by_symbol)]
SortedQuotes(by) == LET keys == Sorted(DOMAIN by) IN [i \in 1..Len(keys) |-> by[keys[i]]]

EmptyDict == [x \in {} |-> x]

----------------------------------------------------------------------------
(* ScreenerCrawler.crawl.  One pass of its while loop is one step; the      *)
(* locals of the call are gathered in a record so that the same pass can    *)
(* also be iterated as a function of the Page Source.                       *)

Locals ==
    [ src_index |-> src_index, by_symbol |-> by_symbol,
      parsed_pages_cache |-> parsed_pages_cache, page_number |-> page_number,
      last_signature |-> last_signature, pc |-> crawl_pc, result |-> crawl_result,
      next_page_calls |-> next_page_calls, fetch_calls |-> fetch_calls,
      parse_calls |-> parse_calls, visited |-> visited ]

\* the accumulator kept on the object: a call starts with what the last
\* one left in it
InitialLocals_SharedAccumulator ==
    [ src_index |-> 1, by_symbol |-> by_symbol, parsed_pages_cache |-> EmptyDict,
      page_number |-> 1, last_signature |-> None, pc |-> "loop", result |-> << >>,
      next_page_calls |-> 0, fetch_calls |-> 0, parse_calls |-> 0, visited |-> << >> ]

\* the locals as crawl sets them before its loop
InitialLocals ==
    [ src_index |-> 1, by_symbol |-> EmptyDict, parsed_pages_cache |-> EmptyDict,
      page_number |-> 1, last_signature |-> None, pc |-> "loop", result |-> << >>,
      next_page_calls |-> 0, fetch_calls |-> 0, parse_calls |-> 0, visited |-> << >> ]

\* no second call of crawl was made
NoOther == [L |-> [InitialLocals EXCEPT !.pc = "idle"], max_pages |-> None]

\* the first half of a pass: fetch the page, parse it unless its key is in
\* the parse cache, merge its quotes into by_symbol
FetchAndMerge(L, ps) ==
    LET html == get_current_page_html(ps, L.src_index)
        key == page_key(html)
        hit == CacheGet(L.parsed_pages_cache, key)
        quotes == IF hit = None THEN parse_quotes(html) ELSE hit[1]
    IN  [ L EXCEPT
            !.parsed_pages_cache = IF hit = None THEN DictPut(@, key, quotes) ELSE @,
            !.parse_calls = IF hit = None THEN Bump(@) ELSE @,
            !.by_symbol = MergeQuotes(@, quotes),
            !.fetch_calls = Bump(@),
            !.visited = IF Len(@) < MaxCount THEN Append(@, html) ELSE @ ]

\* whether the pass ends the loop: the loop-guard, then the page limit, then
\* has_next
Breaks(L, ps, lt, mp) ==
    LET quotes == L.parsed_pages_cache[page_key(get_current_page_html(ps, L.src_index))]
        has_next == has_next_page(ps, lt, L.src_index)
    IN  \/ LoopGuard(Signature(quotes), L.last_signature, has_next)
        \/ LimitReached(mp, L.page_number)
        \/ ~has_next

\* the second half of a pass: break and return the sorted quotes, or advance
Decide(L, ps, lt, mp) ==
    LET quotes == L.parsed_pages_cache[page_key(get_current_page_html(ps, L.src_index))]
        has_next == has_next_page(ps, lt, L.src_index)
        sig == Signature(quotes)
        guard == LoopGuard(sig, L.last_signature, has_next)
    IN  IF Breaks(L, ps, lt, mp)
        THEN [ L EXCEPT !.last_signature = IF guard THEN @ ELSE Some(sig),
                        !.pc = "returned",
                        !.result = SortedQuotes(L.by_symbol) ]
        ELSE [ L EXCEPT !.last_signature = Some(sig),
                        !.src_index = go_to_next_page(ps, lt, @),
                        !.next_page_calls = Bump(@),
                        !.page_number = Bump(@) ]

LoopPass(L, ps, lt, mp) == Decide(FetchAndMerge(L, ps), ps, lt, mp)

SetLocals(L) ==
    /\ src_index' = L.src_index
    /\ by_symbol' = L.by_symbol
    /\ parsed_pages_cache' = L.parsed_pages_cache
    /\ page_number' = L.page_number
    /\ last_signature' = L.last_signature
    /\ crawl_pc' = L.pc
    /\ crawl_result' = L.result
    /\ next_page_calls' = L.next_page_calls
    /\ fetch_calls' = L.fetch_calls
    /\ parse_calls' = L.parse_calls
    /\ visited' = L.visited

Raise(L, error) ==
    /\ SetLocals([L EXCEPT !.pc = "raised"])
    /\ crawl_error' = error

\* crawl(region, max_pages) up to its loop: load_page, apply_region_filter,
\* the locals
CrawlCall(region, mp) ==
    /\ crawl_pc = "idle"
    /\ crawl_region' = region
    /\ max_pages' = mp
    /\ UNCHANGED << pages, loop_to, other, cache_vars, job_vars, api_vars, file_vars,
                    call_vars >>
    /\ \/ \* load_page: the third attempt timed out too
          Raise(Locals, "TimeoutException")
       \/ \* apply_region_filter: the region is empty once stripped
          /\ Strip(region) = << >>
          /\ Raise(Locals, "ValueError")
       \/ \* apply_region_filter: the menu, the checkbox or the apply button failed
          /\ Strip(region) # << >>
          /\ Raise(Locals, "FilterError")
       \/ /\ Strip(region) # << >>
          /\ SetLocals(InitialLocals)
          /\ crawl_error' = crawl_error

\* one pass of the loop, with no call of the Page Source failing
CrawlPass ==
    /\ crawl_pc = "loop"
    /\ \E after \in { LoopPass(Locals, pages, loop_to, max_pages) } : SetLocals(after)
    /\ UNCHANGED << pages, loop_to, crawl_region, max_pages, crawl_error, other,
                    cache_vars, job_vars, api_vars, file_vars, call_vars >>

\* a pass in which a call of the Page Source raises (a WebDriverException)
CrawlPassFails ==
    /\ crawl_pc = "loop"
    /\ UNCHANGED << pages, loop_to, crawl_region, max_pages, other, cache_vars, job_vars,
                    api_vars, file_vars, call_vars >>
    /\ LET fetched == FetchAndMerge(Locals, pages)
       IN  \/ \* get_current_page_html
              Raise([Locals EXCEPT !.fetch_calls = Bump(@)], "WebDriverException")
           \/ \* has_next_page
              Raise(fetched, "WebDriverException")
           \/ \* go_to_next_page
              /\ ~Breaks(fetched, pages, loop_to, max_pages)
              /\ Raise([fetched EXCEPT !.next_page_calls = Bump(@)], "WebDriverException")

CrawlInit ==
    /\ CacheIdle
    /\ JobIdle
    /\ ApiIdle
    /\ FileIdle
    /\ CallIdle
    /\ pages \in PageLists
    /\ loop_to \in 0..Len(pages)
    /\ src_index = 1
    /\ crawl_region = << >>
    /\ max_pages = None
    /\ crawl_pc = "idle"
    /\ crawl_error = ""
    /\ by_symbol = EmptyDict
    /\ parsed_pages_cache = EmptyDict
    /\ page_number = 1
    /\ last_signature = None
    /\ crawl_result = << >>
    /\ next_page_calls = 0
    /\ fetch_calls = 0
    /\ parse_calls = 0
    /\ visited = << >>
    /\ other = NoOther

CrawlNext ==
    \/ \E region \in CrawlRegions, mp \in MaxPagesArgs : CrawlCall(region, mp)
    \/ CrawlPass
    \/ CrawlPassFails

SpecCrawl == CrawlInit /\ [][CrawlNext]_vars

\* For the claims about termination: the same crawl over the lists of a
\* smaller pool of pages, so that the fair behaviours can be enumerated.
LivePagePool == { << >>, << RowNoName >>, << RowA1 >>, << RowB1, RowA1 >> }

LiveCrawlInit ==
    /\ CrawlInit
    /\ \A i \in 1..Len(pages) : pages[i] \in LivePagePool

\* the loop of a running call keeps running: it is sequential code
FairSpecCrawl == LiveCrawlInit /\ [][CrawlNext]_vars /\ WF_vars(CrawlPass)

----------------------------------------------------------------------------
(* What the claims speak of: the pages a call visited and their records *)

RECURSIVE Flatten(_)
Flatten(ss) == IF ss = << >> THEN << >> ELSE Head(ss) \o Flatten(Tail(ss))

\* the records of the pages visited so far, in visit order
VisitedQuotes == Flatten([i \in 1..Len(visited) |-> parse_quotes(visited[i])])

SymbolsOf(quotes) == { quotes[i].symbol : i \in 1..Len(quotes) }

\* the first record of a list that carries the symbol
FirstOccurrence(quotes, symbol) ==
    quotes[CHOOSE i \in 1..Len(quotes) :
             /\ quotes[i].symbol = symbol
             /\ \A j \in 1..(i - 1) : quotes[j].symbol # symbol]

\* the index of the k-th page a crawl visits if nothing stops it before
RECURSIVE IndexAt(_)
IndexAt(k) == IF k = 1 THEN 1 ELSE go_to_next_page(pages, loop_to, IndexAt(k - 1))

\* has_next as the k-th page visited reports it
HasNextAt(k) == has_next_page(pages, loop_to, IndexAt(k))

SignatureAt(k) == Signature(parse_quotes(pages[IndexAt(k)]))

----------------------------------------------------------------------------
(* C1 *)

\* C1: the list crawl returns holds at most one record per symbol, and the
\* record of a symbol is the one of its first occurrence on the pages
\* visited, in visit order; a later occurrence never replaces it.
C1_FirstSeenWins ==
    crawl_pc = "returned" =>
        /\ \A i, j \in 1..Len(crawl_result) :
              crawl_result[i].symbol = crawl_result[j].symbol => i = j
        /\ SymbolsOf(crawl_result) = SymbolsOf(VisitedQuotes)
        /\ \A i \in 1..Len(crawl_result) :
              crawl_result[i] = FirstOccurrence(VisitedQuotes, crawl_result[i].symbol)

\* a returned crawl that met one symbol with two different records, on two pages
C1_Witness ==
    /\ crawl_pc = "returned"
    /\ \E i, j \in 1..Len(visited) :
          /\ i < j
          /\ \E a \in 1..Len(visited[i]), b \in 1..Len(visited[j]) :
                /\ visited[i][a].symbol = visited[j][b].symbol
                /\ visited[i][a] # visited[j][b]
                /\ visited[i][a] \in { crawl_result[k] : k \in 1..Len(crawl_result) }

----------------------------------------------------------------------------
(* C4 *)

\* the source serves the content of its first page again as its second page,
\* with has_next true on both, and the call may visit a second page
C4_SamePageTwice ==
    /\ crawl_pc \in {"loop", "returned", "raised"}
    /\ crawl_error \notin {"TimeoutException", "ValueError", "FilterError"}
    /\ max_pages # Some(1)
    /\ HasNextAt(1)
    /\ pages[IndexAt(2)] = pages[1]
    /\ HasNextAt(2)

C4_StopsAtFirstRepeat ==
    /\ fetch_calls <= 2
    /\ next_page_calls <= 1
    /\ crawl_pc = "returned" =>
          /\ next_page_calls = 1
          /\ fetch_calls = 2
          /\ crawl_result = SortedQuotes(MergeQuotes(EmptyDict, parse_quotes(pages[1])))

\* C4 as claimed: when identical page content is served on consecutive pages
\* while has_next stays true, crawl stops at the first repeated page: one
\* advance call, no third fetch, the output is the unique records of the page.
C4_Original == C4_SamePageTwice => C4_StopsAtFirstRepeat

\* C4 as amended: the same, for a page that parses to at least one record
C4_StopsAtRepeatedNonEmptyPage ==
    (C4_SamePageTwice /\ SignatureAt(1) # << >>) => C4_StopsAtFirstRepeat

C4_Witness ==
    /\ C4_SamePageTwice
    /\ SignatureAt(1) # << >>
    /\ crawl_pc = "returned"
    /\ next_page_calls = 1
    /\ Len(pages) = 3

----------------------------------------------------------------------------
(* C6 *)

\* the records of the first n pages visited
QuotesOfFirst(n) ==
    Flatten([i \in 1..SeqMin(n, Len(visited)) |-> parse_quotes(visited[i])])

\* nothing but the page limit n ends the crawl: each of the first n-1 pages
\* reports a next page and none of them repeats the signature before it
C6_OnlyLimitStops(n) ==
    \A k \in 1..(n - 1) :
        /\ HasNextAt(k)
        /\ k > 1 => ~(SignatureAt(k) # << >> /\ SignatureAt(k) = SignatureAt(k - 1))

\* C6 as claimed: with max_pages = N > 0, crawl makes exactly N-1 advance
\* calls and returns only records of the first N pages served.
C6_Original ==
    (crawl_pc = "returned" /\ max_pages # None) =>
        /\ next_page_calls = max_pages[1] - 1
        /\ SymbolsOf(crawl_result) \subseteq SymbolsOf(QuotesOfFirst(max_pages[1]))

\* C6 as amended: with max_pages = N > 0, crawl fetches at most N pages, makes
\* at most N-1 advance calls, exactly N-1 when nothing but the limit stops it
\* (has_next is true on the first N-1 pages and the loop-guard does not fire
\* on them), and returns only records of the first N pages served.
C6_AtMostLimit ==
    (crawl_pc = "returned" /\ max_pages # None) =>
        /\ fetch_calls <= max_pages[1]
        /\ next_page_calls <= max_pages[1] - 1
        /\ C6_OnlyLimitStops(max_pages[1]) => next_page_calls = max_pages[1] - 1
        /\ { crawl_result[i] : i \in 1..Len(crawl_result) }
              \subseteq { QuotesOfFirst(max_pages[1])[i] : i \in 1..Len(QuotesOfFirst(max_pages[1])) }

\* a crawl of a source with more pages than the limit, stopped by the limit
C6_Witness ==
    /\ crawl_pc = "returned"
    /\ max_pages = Some(2)
    /\ Len(pages) = 3
    /\ next_page_calls = 1
    /\ SymbolsOf(parse_quotes(pages[3])) \ SymbolsOf(crawl_result) # {}

----------------------------------------------------------------------------
(* C5 *)

\* crawl as a function of the Page Source: the loop run from the initial
\* locals for at most fuel passes, no call of the source failing
RECURSIVE RunLoop(_, _, _, _, _)
RunLoop(L, ps, lt, mp, fuel) ==
    IF L.pc # "loop" \/ fuel = 0 THEN L
    ELSE RunLoop(LoopPass(L, ps, lt, mp), ps, lt, mp, fuel - 1)

\* Some(the list returned), or None when the loop is still running after
\* each page and each way from one page to the next has been seen twice
CrawlReturns(ps, lt, mp) ==
    LET L == RunLoop(InitialLocals, ps, lt, mp, Len(ps) + Len(ps) + 1)
    IN  IF L.pc = "returned" THEN Some(L.result) ELSE None

\* the list with its i-th page served once more
ServedOnceMore(ps, i) == SubSeq(ps, 1, i) \o << ps[i] >> \o SubSeq(ps, i + 1, Len(ps))

\* the source is a fixed list of pages that ends, or whose last page is
\* served again and again
C5_FixedSource == loop_to \in {0, Len(pages)}

\* whatever the number of times a repeated page is served, the records are
\* those this call returned: a page served twice in a row may be served a
\* third time, and a last page served without end may be served twice and
\* no more
C5_SameRecords ==
    (crawl_pc = "returned" /\ max_pages = None /\ C5_FixedSource) =>
        /\ \A i \in 1..(Len(pages) - 1) :
              pages[i] = pages[i + 1] =>
                  CrawlReturns(ServedOnceMore(pages, i),
                               IF loop_to = 0 THEN 0 ELSE Len(pages) + 1, None)
                      = Some(crawl_result)
        /\ loop_to = Len(pages) =>
              /\ CrawlReturns(ServedOnceMore(pages, Len(pages)), 0, None) = Some(crawl_result)
              /\ CrawlReturns(ServedOnceMore(pages, Len(pages)), Len(pages) + 1, None)
                    = Some(crawl_result)

C5_Running == crawl_pc = "loop" /\ max_pages = None /\ C5_FixedSource

C5_Ended == crawl_pc \in {"returned", "raised"}

\* C5 as claimed: with max_pages unset, crawl against a fixed, unchanging
\* sequence of page contents always terminates, and the record set returned
\* does not depend on how many times a repeated page is served.
C5_Original == C5_Running ~> (C5_Ended /\ C5_SameRecords)

\* C5 as amended: the same, for a source that ends or whose page served
\* without end parses to at least one record
C5_TerminatesOnNonEmptyRepeat ==
    (C5_Running /\ (loop_to # 0 => Signature(parse_quotes(pages[Len(pages)])) # << >>))
        ~> (C5_Ended /\ C5_SameRecords)

\* a crawl of a source stuck on a page with records, ended by the loop-guard
\* on the second serving of that page
C5_Witness ==
    /\ crawl_pc = "returned"
    /\ max_pages = None
    /\ loop_to = Len(pages)
    /\ Len(pages) >= 2
    /\ pages[Len(pages)] # pages[Len(pages) - 1]
    /\ fetch_calls = Len(pages) + 1

----------------------------------------------------------------------------
(* The quote caches: QuoteCache (one file per region in a directory) and    *)
(* RedisQuoteCache (one key per region).  A stored text is what a file or a *)
(* key holds.  Time is counted in ticks, TicksPerMinute of them to a minute *)
(* of the ttl.                                                              *)

MaxTime == 3
TicksPerMinute == 2
MaxTtl == 1

CACHE_VERSION == 1

\* str.lower
Lower(s) == [i \in 1..Len(s) |-> IF s[i] \in 65..90 THEN s[i] + 32 ELSE s[i]]

\* [a-z0-9]
IsAlnum(c) == c \in 97..122 \/ c \in 48..57

\* every other character becomes a "_" of its own
RECURSIVE SubNonAlnum_EachChar(_)
SubNonAlnum_EachChar(s) ==
    IF s = << >> THEN << >>
    ELSE IF IsAlnum(Head(s)) THEN << Head(s) >> \o SubNonAlnum_EachChar(Tail(s))
    ELSE << 95 >> \o SubNonAlnum_EachChar(Tail(s))

\* re.sub(r"[^a-z0-9]+", "_", s): every maximal run of other characters
\* becomes one "_"
RECURSIVE SubNonAlnum(_)
SubNonAlnum(s) ==
    IF s = << >> THEN << >>
    ELSE IF IsAlnum(Head(s)) THEN << Head(s) >> \o SubNonAlnum(Tail(s))
    ELSE IF Tail(s) # << >> /\ ~IsAlnum(Head(Tail(s))) THEN SubNonAlnum(Tail(s))
    ELSE << 95 >> \o SubNonAlnum(Tail(s))

\* str.strip("_")
RECURSIVE StripUnderscores(_)
StripUnderscores(s) ==
    IF s # << >> /\ Head(s) = 95 THEN StripUnderscores(Tail(s))
    ELSE IF s # << >> /\ s[Len(s)] = 95 THEN StripUnderscores(SubSeq(s, 1, Len(s) - 1))
    ELSE s

\* "unknown_region"
UnknownRegion == << 117, 110, 107, 110, 111, 119, 110, 95, 114, 101, 103, 105, 111, 110 >>

normalize_region(region) ==
    LET normalized == StripUnderscores(SubNonAlnum(Lower(Strip(region))))
    IN  IF normalized = << >> THEN UnknownRegion ELSE normalized

\* one file for every region
cache_file_OneFile(region) == UnknownRegion \o << 46, 106, 115, 111, 110 >>

\* QuoteCache._cache_file: "<normalized>.json" in the cache directory
cache_file(region) == normalize_region(region) \o << 46, 106, 115, 111, 110 >>

\* the key prefix of the Redis cache, here "q"
key_prefix == << 113 >>

\* RedisQuoteCache._cache_key: "<prefix>:<normalized>"
cache_key(region) == key_prefix \o << 58 >> \o normalize_region(region)

StoreName(kind, region) == IF kind = "local" THEN cache_file(region) ELSE cache_key(region)

(* Stored texts and the JSON values they denote.  A JSON value is an object  *)
(* with the keys version, region, created_at and records, each present or    *)
(* missing, or a value that is no object.                                    *)

NotJsonText == [kind |-> "garbage", value |-> << >>]
EmptyText == [kind |-> "empty", value |-> << >>]

\* json.dumps
Dumps(value) == [kind |-> "json", value |-> << value >>]

\* json.loads: Some(the value), or None when it raises
Loads(text) == IF text.kind = "json" THEN Some(text.value[1]) ELSE None

JObject(version, region, created_at, records) ==
    [t |-> "object", version |-> version, region |-> region,
     created_at |-> created_at, records |-> records]

\* a JSON array, number, string or null where the object is expected
JNotObject == [t |-> "array", version |-> None, region |-> None,
               created_at |-> None, records |-> None]

\* the value under created_at: the empty string, a string that is no ISO
\* date, a number, or the ISO text of a datetime
JCreatedAt(t, at, aware) == [t |-> t, at |-> at, aware |-> aware]

\* datetime.now(timezone.utc)
UtcNow(clock) == [at |-> clock, aware |-> TRUE]

\* datetime.isoformat
IsoFormat(dt) == JCreatedAt("iso", dt.at, dt.aware)

\* the value under records: an array of entries, or null
JArray(items) == [t |-> "array", items |-> items]
JNullRecords == [t |-> "null", items |-> << >>]

\* dataclasses.asdict of an EquityQuote
AsDict(record) ==
    [t |-> "object", symbol |-> record.symbol, name |-> record.name, price |-> record.price]

\* an entry of records that is no object (a string)
JNotRecord == [t |-> "string", symbol |-> << >>, name |-> << >>, price |-> << >>]

\* now - created_at > ttl, with >= for >
Expired_AtBoundary(created_at, ttl_minutes, clock) ==
    LET ttl == (IF ttl_minutes > 0 THEN ttl_minutes ELSE 0) * TicksPerMinute
    IN  clock - created_at.at >= ttl

\* ttl = timedelta(minutes=max(ttl_minutes, 0)); now - created_at > ttl
Expired(created_at, ttl_minutes, clock) ==
    LET ttl == (IF ttl_minutes > 0 THEN ttl_minutes ELSE 0) * TicksPerMinute
    IN  clock - created_at.at > ttl

\* the loop over records with the quotes appended in front
RECURSIVE ReadRecords_Reversed(_)
ReadRecords_Reversed(items) ==
    IF items = << >> THEN Returns(<< >>)
    ELSE LET record == Head(items)
         IN  IF record.t # "object" THEN Raises("AttributeError")
             ELSE LET rest == ReadRecords_Reversed(Tail(items))
                      symbol == Strip(record.symbol)
                      name == Strip(record.name)
                      price == Strip(record.price)
                  IN  IF rest.kind = "raise" THEN rest
                      ELSE IF symbol = << >> \/ name = << >> THEN rest
                      ELSE Returns(rest.value \o << Row(symbol, name, price) >>)

\* for record in records: strip the three fields, skip the record without a
\* symbol or a name, append the others; record.get raises AttributeError on
\* an entry that is no object
RECURSIVE ReadRecords(_)
ReadRecords(items) ==
    IF items = << >> THEN Returns(<< >>)
    ELSE LET record == Head(items)
         IN  IF record.t # "object" THEN Raises("AttributeError")
             ELSE LET rest == ReadRecords(Tail(items))
                      symbol == Strip(record.symbol)
                      name == Strip(record.name)
                      price == Strip(record.price)
                  IN  IF rest.kind = "raise" THEN rest
                      ELSE IF symbol = << >> \/ name = << >> THEN rest
                      ELSE Returns(<< Row(symbol, name, price) >> \o rest.value)

\* load from the decoded payload on: the same text in both classes
ReadSnapshot(payload, ttl_minutes, clock) ==
    IF payload.t # "object" THEN Raises("AttributeError")        \* payload.get
    ELSE IF payload.version # Some(CACHE_VERSION) THEN ReturnsNone
    ELSE IF payload.created_at = None THEN ReturnsNone
    ELSE LET created_at_raw == payload.created_at[1]
         IN  IF created_at_raw.t = "empty" THEN ReturnsNone      \* not created_at_raw
             ELSE IF created_at_raw.t = "number" THEN Raises("TypeError")  \* fromisoformat
             ELSE IF created_at_raw.t # "iso" THEN ReturnsNone   \* ValueError
             ELSE LET created_at == [at |-> created_at_raw.at, aware |-> TRUE]
                  IN  IF Expired(created_at, ttl_minutes, clock) THEN ReturnsNone
                      ELSE IF payload.records = None THEN Returns(<< >>)
                      ELSE IF payload.records[1].t # "array" THEN Raises("TypeError")
                      ELSE ReadRecords(payload.records[1].items)

QuoteCache_load(store, region, ttl_minutes, clock) ==
    LET path == cache_file(region)
    IN  IF path \notin DOMAIN store THEN ReturnsNone
        ELSE LET payload == Loads(store[path])
             IN  IF payload = None THEN ReturnsNone
                 ELSE ReadSnapshot(payload[1], ttl_minutes, clock)

\* the load with an empty payload read as a snapshot without records
RedisQuoteCache_load_EmptyIsNoRecords(store, region, ttl_minutes, clock) ==
    LET key == cache_key(region)
    IN  IF key \notin DOMAIN store THEN ReturnsNone
        ELSE IF store[key].kind = "empty" THEN Returns(<< >>)
        ELSE LET payload == Loads(store[key])
             IN  IF payload = None THEN ReturnsNone
                 ELSE ReadSnapshot(payload[1], ttl_minutes, clock)

RedisQuoteCache_load(store, region, ttl_minutes, clock) ==
    LET key == cache_key(region)
    IN  IF key \notin DOMAIN store \/ store[key].kind = "empty" THEN ReturnsNone
        ELSE LET payload == Loads(store[key])
             IN  IF payload = None THEN ReturnsNone
                 ELSE ReadSnapshot(payload[1], ttl_minutes, clock)

\* the payload save builds
Snapshot(region, records, clock) ==
    JObject(Some(CACHE_VERSION), Some(region), Some(IsoFormat(UtcNow(clock))),
            Some(JArray([i \in 1..Len(records) |-> AsDict(records[i])])))

\* the store after a save that wrote its text
QuoteCache_save(store, region, records, clock) ==
    DictPut(store, cache_file(region), Dumps(Snapshot(region, records, clock)))

RedisQuoteCache_save(store, region, records, clock) ==
    DictPut(store, cache_key(region), Dumps(Snapshot(region, records, clock)))

CacheLoadResult(kind, store, region, ttl_minutes, clock) ==
    IF kind = "local" THEN QuoteCache_load(store, region, ttl_minutes, clock)
    ELSE RedisQuoteCache_load(store, region, ttl_minutes, clock)

CacheSaveResult(kind, store, region, records, clock) ==
    IF kind = "local" THEN QuoteCache_save(store, region, records, clock)
    ELSE RedisQuoteCache_save(store, region, records, clock)

(* The operations of a cache object *)

Tick ==
    /\ now < MaxTime
    /\ now' = now + 1
    /\ UNCHANGED << cache_kind, cache_store, cache_op, cache_ret, crawl_vars, job_vars, api_vars, file_vars, call_vars >>

CacheLoad(region, ttl_minutes) ==
    /\ \/ /\ cache_op' = CacheCall("load", region, ttl_minutes, << >>, now, FALSE)
          /\ cache_ret' = CacheLoadResult(cache_kind, cache_store, region, ttl_minutes, now)
       \/ \* the file is there and cannot be read: except Exception
          /\ cache_kind = "local"
          /\ cache_file(region) \in DOMAIN cache_store
          /\ cache_op' = CacheCall("load", region, ttl_minutes, << >>, now, TRUE)
          /\ cache_ret' = ReturnsNone
       \/ \* client.get raises RedisError
          /\ cache_kind = "redis"
          /\ cache_op' = CacheCall("load", region, ttl_minutes, << >>, now, TRUE)
          /\ cache_ret' = ReturnsNone
    /\ UNCHANGED << now, cache_kind, cache_store, crawl_vars, job_vars, api_vars, file_vars, call_vars >>

CacheSave(region, records) ==
    /\ \/ /\ cache_op' = CacheCall("save", region, 0, records, now, FALSE)
          /\ cache_store' = CacheSaveResult(cache_kind, cache_store, region, records, now)
          /\ cache_ret' = Returns(StoreName(cache_kind, region))
       \/ \* write_text raises OSError before it has touched the file
          /\ cache_kind = "local"
          /\ cache_op' = CacheCall("save", region, 0, records, now, TRUE)
          /\ cache_store' = cache_store
          /\ cache_ret' = Raises("OSError")
       \/ \* write_text raises OSError having truncated the file
          /\ cache_kind = "local"
          /\ cache_op' = CacheCall("save", region, 0, records, now, TRUE)
          /\ cache_store' = DictPut(cache_store, cache_file(region), NotJsonText)
          /\ cache_ret' = Raises("OSError")
       \/ \* client.set raises RedisError: logged, and the key is returned
          /\ cache_kind = "redis"
          /\ cache_op' = CacheCall("save", region, 0, records, now, TRUE)
          /\ cache_store' = cache_store
          /\ cache_ret' = Returns(cache_key(region))
    /\ UNCHANGED << now, cache_kind, crawl_vars, job_vars, api_vars, file_vars, call_vars >>

\* "A", " a" (the same file and key as "A") and "B"
CacheRegions == { << 65 >>, << 32, 97 >>, << 66 >> }

\* a record whose symbol and name carry surrounding blanks
RowPadded == Row(<< 32, 68 >>, << 78, 32 >>, << 49 >>)

CacheRecordLists == { << >>, << RowB1, RowA1 >>, << RowNoName, RowC1 >>, << RowPadded >> }

TtlArgs == (-1)..MaxTtl

\* no crawl call is made
CrawlIdle ==
    /\ pages = << << >> >>
    /\ loop_to = 0
    /\ src_index = 1
    /\ crawl_region = << >>
    /\ max_pages = None
    /\ crawl_pc = "idle"
    /\ crawl_error = ""
    /\ by_symbol = EmptyDict
    /\ parsed_pages_cache = EmptyDict
    /\ page_number = 1
    /\ last_signature = None
    /\ crawl_result = << >>
    /\ next_page_calls = 0
    /\ fetch_calls = 0
    /\ parse_calls = 0
    /\ visited = << >>
    /\ other = NoOther

(* A cache object used from an empty store on *)

CacheInit ==
    /\ CrawlIdle
    /\ JobIdle
    /\ ApiIdle
    /\ FileIdle
    /\ CallIdle
    /\ now = 0
    /\ cache_kind \in {"local", "redis"}
    /\ cache_store = << >>
    /\ cache_op = NoCacheCall
    /\ cache_ret = NoReturn

CacheNext ==
    \/ Tick
    \/ \E region \in CacheRegions, records \in CacheRecordLists : CacheSave(region, records)
    \/ \E region \in CacheRegions, ttl_minutes \in TtlArgs : CacheLoad(region, ttl_minutes)

SpecCache == CacheInit /\ [][CacheNext]_vars

(* A cache object reading a store that holds one text, of any shape, under  *)
(* the file name or key of region "A"                                       *)

StoredVersions == { None, Some(CACHE_VERSION), Some(CACHE_VERSION + 1) }

StoredCreatedAts ==
    { None, Some(JCreatedAt("empty", 0, FALSE)), Some(JCreatedAt("text", 0, FALSE)),
      Some(JCreatedAt("number", 0, FALSE)) }
    \cup { Some(JCreatedAt("iso", at, aware)) : at \in 0..MaxTime, aware \in BOOLEAN }

StoredRecords ==
    { None, Some(JNullRecords) }
    \cup { Some(JArray(items)) :
             items \in { << >>,
                         << AsDict(RowA1) >>,
                         << AsDict(RowB1), AsDict(RowA1) >>,
                         << AsDict(RowNoName), AsDict(RowC1) >>,
                         << AsDict(RowPadded) >>,
                         << JNotRecord >>,
                         << AsDict(RowA1), JNotRecord >> } }

StoredTexts ==
    { NotJsonText, EmptyText, Dumps(JNotObject) }
    \cup { Dumps(JObject(version, Some(<< 65 >>), created_at, records)) :
             version \in StoredVersions, created_at \in StoredCreatedAts,
             records \in StoredRecords }

StoredInit ==
    /\ CrawlIdle
    /\ JobIdle
    /\ ApiIdle
    /\ FileIdle
    /\ CallIdle
    /\ now = 0
    /\ cache_kind \in {"local", "redis"}
    /\ \E text \in StoredTexts :
          cache_store = DictPut(<< >>, StoreName(cache_kind, << 65 >>), text)
    /\ cache_op = NoCacheCall
    /\ cache_ret = NoReturn

StoredNext ==
    \/ Tick
    \/ \E region \in CacheRegions, ttl_minutes \in TtlArgs : CacheLoad(region, ttl_minutes)

SpecStoredPayload == StoredInit /\ [][StoredNext]_vars

----------------------------------------------------------------------------
(* What the claims on the cache speak of *)

HasStored(region) == StoreName(cache_kind, region) \in DOMAIN cache_store

StoredFor(region) == cache_store[StoreName(cache_kind, region)]

\* a Record of the data model: its symbol and its name are not empty
IsRecord(record) == record.symbol # << >> /\ record.name # << >>

\* a record as the parser delivers it: no field carries surrounding blanks
IsStripped(record) ==
    /\ Strip(record.symbol) = record.symbol
    /\ Strip(record.name) = record.name
    /\ Strip(record.price) = record.price

\* a snapshot of the current version, with a parseable created_at and a
\* sequence of Records
ValidlyShaped(text) ==
    /\ text.kind = "json"
    /\ LET payload == text.value[1]
       IN  /\ payload.t = "object"
           /\ payload.version = Some(CACHE_VERSION)
           /\ payload.created_at # None
           /\ payload.created_at[1].t = "iso"
           /\ payload.records # None
           /\ payload.records[1].t = "array"
           /\ \A i \in 1..Len(payload.records[1].items) :
                 /\ payload.records[1].items[i].t = "object"
                 /\ IsRecord(payload.records[1].items[i])

StoredRows(text) ==
    LET items == text.value[1].records[1].items
    IN  [i \in 1..Len(items) |-> Row(items[i].symbol, items[i].name, items[i].price)]

StoredCreatedAt(text) == text.value[1].created_at[1].at

\* the last call is a load that the store served, of a region for which a
\* validly-shaped snapshot is stored
C7_Case ==
    /\ cache_op.op = "load"
    /\ ~cache_op.store_error
    /\ HasStored(cache_op.region)
    /\ ValidlyShaped(StoredFor(cache_op.region))

\* now - created_at of that load, in ticks
C7_Age == cache_op.at - StoredCreatedAt(StoredFor(cache_op.region))

\* C7 as claimed: for every region, every ttl and every validly-shaped stored
\* snapshot, load returns absent whenever now - created_at > ttl and returns
\* the stored records otherwise, the boundary now - created_at = ttl counting
\* as fresh, for both backends.
C7_Original ==
    C7_Case =>
        IF C7_Age > cache_op.ttl_minutes * TicksPerMinute
        THEN cache_ret = ReturnsNone
        ELSE cache_ret = Returns(StoredRows(StoredFor(cache_op.region)))

\* C7 as amended: the same for every ttl >= 0 and records without
\* surrounding blanks; a negative ttl is the ttl 0.  Both backends.
C7_FreshWithinClampedTtl ==
    (/\ C7_Case
     /\ \A i \in 1..Len(StoredRows(StoredFor(cache_op.region))) :
           IsStripped(StoredRows(StoredFor(cache_op.region))[i]))
    => IF C7_Age > (IF cache_op.ttl_minutes > 0 THEN cache_op.ttl_minutes ELSE 0)
                       * TicksPerMinute
       THEN cache_ret = ReturnsNone
       ELSE cache_ret = Returns(StoredRows(StoredFor(cache_op.region)))

\* a load of a snapshot whose age is exactly its ttl of one minute, which
\* returned the two records stored
C7_Witness ==
    /\ C7_Case
    /\ cache_op.ttl_minutes = 1
    /\ C7_Age = TicksPerMinute
    /\ cache_ret = Returns(<< RowB1, RowA1 >>)

\* the text stored is malformed: no JSON, no object, a created_at that is no
\* string, a missing or unparseable created_at, records that are not a list
\* of objects
Malformed(text) ==
    \/ text.kind # "json"
    \/ text.value[1].t # "object"
    \/ text.value[1].created_at = None
    \/ text.value[1].created_at[1].t # "iso"
    \/ /\ text.value[1].records # None
       /\ \/ text.value[1].records[1].t # "array"
          \/ \E i \in 1..Len(text.value[1].records[1].items) :
                text.value[1].records[1].items[i].t # "object"

\* C9 as claimed: for every stored payload, load returns a record list or
\* absent and never raises; it returns absent when no entry exists, when the
\* payload is not valid JSON or is JSON of an unexpected shape, when the
\* schema version mismatches and when created_at is missing or unparseable.
C9_Original ==
    cache_op.op = "load" =>
        /\ cache_ret.kind \in {"value", "none"}
        /\ ~HasStored(cache_op.region) => cache_ret = ReturnsNone
        /\ (/\ HasStored(cache_op.region)
            /\ \/ Malformed(StoredFor(cache_op.region))
               \/ StoredFor(cache_op.region).value[1].version # Some(CACHE_VERSION))
           => cache_ret = ReturnsNone

\* a step from a save that stored its snapshot to a load of the same region,
\* with a ttl >= 0, that the store served, the clock having advanced by one
\* tick at most in between; the records saved are Records
C8_SaveThenLoad ==
    /\ cache_op.op = "save"
    /\ ~cache_op.store_error
    /\ cache_ret.kind = "value"
    /\ \A i \in 1..Len(cache_op.records) : IsRecord(cache_op.records[i])
    /\ cache_op'.op = "load"
    /\ ~cache_op'.store_error
    /\ cache_op'.region = cache_op.region
    /\ cache_op'.ttl_minutes >= 0
    /\ cache_op'.at - cache_op.at <= 1

\* C8 as claimed: for every region and every list R of records, save(region,
\* R) followed immediately by load(region, ttl) with any ttl >= 0, ttl = 0
\* included, returns a list equal to R, same records, same order, for both
\* backends.
C8_Original == [][C8_SaveThenLoad => cache_ret' = Returns(cache_op.records)]_vars

\* C8 as amended: for records without surrounding blanks, the load returns
\* R when ttl >= 1 or the clock has not advanced since the save, and absent
\* when ttl = 0 and the clock has advanced.  Both backends.
C8_RoundTripWithinTtl ==
    [][(/\ C8_SaveThenLoad
        /\ \A i \in 1..Len(cache_op.records) : IsStripped(cache_op.records[i]))
       => IF cache_op'.ttl_minutes >= 1 \/ cache_op'.at = cache_op.at
          THEN cache_ret' = Returns(cache_op.records)
          ELSE cache_ret' = ReturnsNone]_vars

\* a load that returned the two records, in their order, of the snapshot
\* saved for its region string one tick earlier at most
C8_Witness ==
    /\ cache_op.op = "load"
    /\ ~cache_op.store_error
    /\ HasStored(cache_op.region)
    /\ ValidlyShaped(StoredFor(cache_op.region))
    /\ StoredFor(cache_op.region).value[1].region = Some(cache_op.region)
    /\ cache_op.at - StoredCreatedAt(StoredFor(cache_op.region)) <= 1
    /\ cache_ret = Returns(<< RowB1, RowA1 >>)

----------------------------------------------------------------------------
(* run_crawl_job.  A call is one step: the function is sequential and       *)
(* shares nothing but the cache store and the output file.  What its        *)
(* collaborators do in the call (the pages the Page Source serves, whether  *)
(* the crawl, the cache store or the Result Sink fails) is chosen with the  *)
(* call.  configure_logging, its first statement, touches none of this.     *)

\* CrawlExecutionParams, as far as the function reads them
JobParams(region, mp, use_cache, cache_backend, cache_ttl_minutes) ==
    [region |-> region, max_pages |-> mp, use_cache |-> use_cache,
     cache_backend |-> cache_backend, cache_ttl_minutes |-> cache_ttl_minutes]

JobEnv(ps, crawl_fails, store_fails, sink_fails) ==
    [pages |-> ps, crawl_fails |-> crawl_fails, store_fails |-> store_fails,
     sink_fails |-> sink_fails]

\* the fields of the dataclass CrawlerConfig
ConfigFields ==
    { "base_url", "timeout_seconds", "headless", "page_load_timeout_seconds",
      "cache_enabled", "cache_ttl_minutes", "redis_url", "redis_key_prefix" }

\* the keywords run_crawl_job passes to CrawlerConfig
ConfigKwargs ==
    { "timeout_seconds", "headless", "cache_enabled", "cache_backend", "cache_dir",
      "cache_ttl_minutes", "redis_url", "redis_key_prefix" }

\* the generated __init__ of a dataclass raises TypeError on a keyword that
\* is no field
CrawlerConfigAccepts(kwargs) == kwargs \subseteq ConfigFields

\* "local" and "redis"
LocalName == << 108, 111, 99, 97, 108 >>
RedisName == << 114, 101, 100, 105, 115 >>

\* params.cache_backend.strip().lower() or "local"
NormalizedBackend(cache_backend) ==
    IF Lower(Strip(cache_backend)) = << >> THEN LocalName ELSE Lower(Strip(cache_backend))

\* _build_cache: Some(the kind of cache built), or None when it raises
\* ValueError
build_cache(cache_enabled, cache_backend) ==
    IF ~cache_enabled THEN Some("local")
    ELSE IF cache_backend = RedisName THEN Some("redis")
    ELSE IF cache_backend = LocalName THEN Some("local")
    ELSE None

\* the store the cache built reads and writes: the model keeps one store,
\* that of cache_kind, and the store of the other backend is empty
StoreSeen(kind, this_kind, store) == IF kind = this_kind THEN store ELSE << >>

CrawlExecutionResult(source, records) ==
    [kind |-> "return", source |-> source, total_records |-> Len(records), error |-> ""]

JobRaises(error) == [kind |-> "raise", source |-> "", total_records |-> 0, error |-> error]

JobEnd(ret, store, sink, created, quit) ==
    [ret |-> ret, store |-> store, sink |-> sink, created |-> created, quit |-> quit]

\* cache.load as the job calls it
JobLoad(kind, this_kind, store, params, env, clock) ==
    IF env.store_fails /\ (kind = "redis" \/ StoreName(kind, params.region) \in DOMAIN store)
    THEN ReturnsNone
    ELSE CacheLoadResult(kind, StoreSeen(kind, this_kind, store), params.region,
                         params.cache_ttl_minutes, clock)

\* the live part: driver, client, crawl, cache.save, CsvWriter.write, and
\* client.close in the finally clause
LiveJob(params, env, kind, this_kind, store, sink, clock) ==
    IF env.crawl_fails THEN JobEnd(JobRaises("WebDriverException"), store, sink, 1, 1)
    ELSE IF Strip(params.region) = << >> THEN JobEnd(JobRaises("ValueError"), store, sink, 1, 1)
    ELSE LET records == CrawlReturns(env.pages, 0, params.max_pages)[1]
             saved == IF params.use_cache /\ ~env.store_fails /\ kind = this_kind
                      THEN CacheSaveResult(kind, store, params.region, records, clock)
                      ELSE store
         IN  IF params.use_cache /\ env.store_fails /\ kind = "local"
             THEN JobEnd(JobRaises("OSError"), store, sink, 1, 1)
             ELSE IF env.sink_fails THEN JobEnd(JobRaises("OSError"), saved, sink, 1, 1)
             ELSE JobEnd(CrawlExecutionResult("live", records), saved, Some(records), 1, 1)

run_crawl_job(params, env, this_kind, store, sink, clock) ==
    IF ~CrawlerConfigAccepts(ConfigKwargs) THEN JobEnd(JobRaises("TypeError"), store, sink, 0, 0)
    ELSE LET cache == build_cache(params.use_cache, NormalizedBackend(params.cache_backend))
         IN  IF cache = None THEN JobEnd(JobRaises("ValueError"), store, sink, 0, 0)
             ELSE LET cached_records ==
                          IF params.use_cache
                          THEN JobLoad(cache[1], this_kind, store, params, env, clock)
                          ELSE ReturnsNone
                  IN  IF cached_records.kind = "raise"
                      THEN JobEnd(JobRaises(cached_records.error), store, sink, 0, 0)
                      ELSE IF cached_records.kind = "value" /\ env.sink_fails
                      THEN JobEnd(JobRaises("OSError"), store, sink, 0, 0)
                      ELSE IF cached_records.kind = "value"
                      THEN JobEnd(CrawlExecutionResult("cache", cached_records.value),
                                  store, Some(cached_records.value), 0, 0)
                      ELSE LiveJob(params, env, cache[1], this_kind, store, sink, clock)

\* what the cache of the backend the params name holds for the job: the
\* value a load that the store serves returns, or None
HeldFor(params, this_kind, store, clock) ==
    LET cache == build_cache(params.use_cache, NormalizedBackend(params.cache_backend))
    IN  IF cache = None \/ ~params.use_cache THEN ReturnsNone
        ELSE CacheLoadResult(cache[1], StoreSeen(cache[1], this_kind, store),
                             params.region, params.cache_ttl_minutes, clock)

RunCrawlJob(params, env) ==
    /\ LET end == run_crawl_job(params, env, cache_kind, cache_store, sink_file, now)
       IN  /\ job_call' = Some([params |-> params, env |-> env,
                                held |-> HeldFor(params, cache_kind, cache_store, now)])
           /\ job_ret' = end.ret
           /\ cache_store' = end.store
           /\ sink_file' = end.sink
           /\ drivers_created' = end.created
           /\ drivers_quit' = end.quit
    /\ UNCHANGED << now, cache_kind, cache_op, cache_ret, crawl_vars, api_vars, file_vars, call_vars >>

\* "A" and a blank region; "local", "redis" and "x" as backend names
JobParamsArgs ==
    { JobParams(region, None, use_cache, cache_backend, cache_ttl_minutes) :
        region \in { << 65 >>, << 32 >> },
        use_cache \in BOOLEAN,
        cache_backend \in { LocalName, RedisName, << 120 >> },
        cache_ttl_minutes \in { 0, MaxTtl } }

JobEnvs ==
    { JobEnv(ps, crawl_fails, store_fails, sink_fails) :
        ps \in { << << RowB1, RowA1 >>, << RowC1 >> >> },
        crawl_fails \in BOOLEAN, store_fails \in BOOLEAN, sink_fails \in BOOLEAN }

JobNext ==
    \/ Tick
    \/ CacheSave(<< 65 >>, << RowB1, RowA1 >>)
    \/ \E params \in JobParamsArgs, env \in JobEnvs : RunCrawlJob(params, env)

SpecJob == CacheInit /\ [][JobNext]_vars

----------------------------------------------------------------------------
(* What the claims on the job speak of *)

\* a job was run with caching enabled and a recognized backend
JobWithCache ==
    /\ job_call # None
    /\ job_call[1].params.use_cache
    /\ NormalizedBackend(job_call[1].params.cache_backend) \in { LocalName, RedisName }

\* C2 as claimed: when caching is enabled and the cache holds a fresh
\* snapshot for the region, run_crawl_job writes exactly those records to the
\* Result Sink and returns source "cache" with total_records the number of
\* cached records, without creating a browser driver.
C2_Original ==
    (/\ JobWithCache
     /\ ~job_call[1].env.store_fails
     /\ ~job_call[1].env.sink_fails
     /\ job_call[1].held.kind = "value")
    => /\ job_ret = CrawlExecutionResult("cache", job_call[1].held.value)
       /\ sink_file = Some(job_call[1].held.value)
       /\ drivers_created = 0

\* C10 as claimed: on a successful live crawl with caching enabled, a failure
\* of the cache save, for either backend, does not fail the job: it still
\* writes the crawled records to the Result Sink and returns source "live".
C10_Original ==
    (/\ JobWithCache
     /\ job_call[1].held.kind = "none"
     /\ ~job_call[1].env.crawl_fails
     /\ Strip(job_call[1].params.region) # << >>
     /\ job_call[1].env.store_fails
     /\ ~job_call[1].env.sink_fails)
    => /\ job_ret.kind = "return"
       /\ job_ret.source = "live"
       /\ sink_file # None

\* the records the crawl of the job's Page Source returns
JobCrawled == CrawlReturns(job_call[1].env.pages, 0, job_call[1].params.max_pages)[1]

\* a job was run that finds nothing to return in the cache, while nothing
\* is wrong with its parameters: its region is not blank, and caching is
\* off or its backend is a recognized one
LiveJobCase ==
    /\ job_call # None
    /\ Strip(job_call[1].params.region) # << >>
    /\ \/ ~job_call[1].params.use_cache
       \/ NormalizedBackend(job_call[1].params.cache_backend) \in { LocalName, RedisName }
    /\ job_call[1].held.kind = "none"

\* C11 as claimed: given a cache backend name other than local and redis,
\* caching enabled or not, run_crawl_job fails with a configuration or
\* invalid-input error before any cache object is built, any cache lookup or
\* storage access is made and any Page Source is acquired.
C11_Original ==
    (/\ job_call # None
     /\ NormalizedBackend(job_call[1].params.cache_backend) \notin { LocalName, RedisName })
    => /\ job_ret = JobRaises("ValueError")
       /\ drivers_created = 0
       /\ sink_file = None

\* C12 as claimed: if crawl raises during a live execution, run_crawl_job
\* raises that same error to its caller, the Page Source is released before
\* the error reaches the caller, and neither the Result Sink file nor the
\* cache snapshot is written in that execution.
C12_Original ==
    (LiveJobCase /\ job_call[1].env.crawl_fails)
    => /\ job_ret = JobRaises("WebDriverException")
       /\ drivers_created = 1
       /\ drivers_quit = 1
       /\ sink_file = None

\* C19 as claimed: when the Redis store is unreachable, load returns absent
\* and save returns the key without raising, so a run_crawl_job with the
\* Redis backend and caching enabled falls back to a live crawl and completes
\* with source "live".
C19_Original ==
    /\ (cache_kind = "redis" /\ cache_op.store_error) => cache_ret.kind # "raise"
    /\ (/\ LiveJobCase
        /\ job_call[1].params.use_cache
        /\ NormalizedBackend(job_call[1].params.cache_backend) = RedisName
        /\ job_call[1].env.store_fails
        /\ ~job_call[1].env.crawl_fails
        /\ ~job_call[1].env.sink_fails)
       => /\ job_ret = CrawlExecutionResult("live", JobCrawled)
          /\ drivers_created = 1

\* C20 as claimed: after a successful live run_crawl_job with caching
\* enabled the cache holds a snapshot of exactly the crawled records, and a
\* following run for the same region within the ttl returns source "cache"
\* with the same records in the same order, without acquiring a Page Source;
\* a snapshot is only ever replaced wholesale by a later save.
C20_Original ==
    (/\ LiveJobCase
     /\ job_call[1].params.use_cache
     /\ ~job_call[1].env.store_fails
     /\ ~job_call[1].env.crawl_fails
     /\ ~job_call[1].env.sink_fails)
    => /\ job_ret = CrawlExecutionResult("live", JobCrawled)
       /\ HasStored(job_call[1].params.region)
       /\ ValidlyShaped(StoredFor(job_call[1].params.region))

----------------------------------------------------------------------------
(* More on ScreenerCrawler.crawl *)

\* C15: the list crawl returns is sorted by symbol in strictly ascending
\* order, and its set of symbols is the union of the symbols parsed on the
\* pages visited before it ended.
C15_SortedBySymbol ==
    crawl_pc = "returned" =>
        /\ \A i, j \in 1..Len(crawl_result) :
              i < j => StrLess(crawl_result[i].symbol, crawl_result[j].symbol)
        /\ SymbolsOf(crawl_result) = SymbolsOf(VisitedQuotes)

\* a returned crawl whose first page listed B before A
C15_Witness ==
    /\ crawl_pc = "returned"
    /\ visited # << >>
    /\ visited[1] = << RowB1, RowA1 >>
    /\ Len(crawl_result) >= 2
    /\ crawl_result[1] = RowA1
    /\ crawl_result[2] = RowB1

\* the distinct page contents fetched so far
DistinctVisited == { visited[i] : i \in 1..Len(visited) }

\* C16: within one crawl call the parser is invoked at most once per
\* distinct page content: a fetched page with the fingerprint of an earlier
\* page of the call reuses the earlier parse result, an empty list included,
\* and the parser is not called again.
C16_ParsedOncePerContent ==
    /\ parse_calls = Cardinality(DistinctVisited)
    /\ DOMAIN parsed_pages_cache = { page_key(html) : html \in DistinctVisited }
    /\ \A html \in DistinctVisited : parsed_pages_cache[page_key(html)] = parse_quotes(html)

\* a call that fetched twice a page that parses to no record, and parsed once
C16_Witness ==
    /\ Len(visited) >= 2
    /\ visited[1] = visited[2]
    /\ parse_quotes(visited[1]) = << >>
    /\ parse_calls = 1

\* C17 as claimed: a failure while applying the region filter, for a
\* non-empty region, is not fatal: whenever apply_region_filter fails, the
\* crawl still enters the pagination loop and returns the records of
\* whatever is rendered instead of raising.
C17_Original ==
    (/\ crawl_pc # "idle"
     /\ Strip(crawl_region) # << >>
     /\ crawl_error # "TimeoutException")
    => \/ crawl_pc \in {"loop", "returned"}
       \/ fetch_calls > 0

\* C18 as claimed: a crawl call with an empty or whitespace-only region
\* fails with an invalid-input error immediately, before any page load; it
\* never returns records.
C18_Original ==
    (crawl_pc # "idle" /\ Strip(crawl_region) = << >>)
    => /\ crawl_pc = "raised"
       /\ crawl_error = "ValueError"


----------------------------------------------------------------------------
(* The API (api.py): crawl_submit, crawl_job_status and the executor task   *)
(* _run_crawl_job_async.  Request threads and executor threads run          *)
(* concurrently and a thread can be preempted between any two statements,   *)
(* so every store into the dict of a job is a step of its own.  A block     *)
(* "with _jobs_lock" that touches nothing but the lock and locals is one    *)
(* step.  run_crawl_job is one step, as in SpecJob.                         *)

\* jobs submitted in one run of the model
MaxJobs == 2

\* ThreadPoolExecutor(max_workers=2)
max_workers == 2

\* the dict crawl_submit stores under the job id
NewJob(job_id, submitted_at) ==
    [job_id |-> job_id, status |-> "queued", submitted_at |-> submitted_at,
     started_at |-> None, finished_at |-> None, elapsed_seconds |-> None,
     result |-> None, error |-> None]

\* CrawlResponse(success=True, ...) of a job that returned
CrawlResponse(source, total_records, elapsed_seconds) ==
    [success |-> TRUE, source |-> source, total_records |-> total_records,
     elapsed_seconds |-> elapsed_seconds]

\* the executor task of a job: where it is (block, and k, the next store of
\* a block under the lock) and its locals
NewWorker(params) ==
    [block |-> "queued", k |-> 0, params |-> params, start |-> 0, finished_at |-> 0,
     elapsed |-> 0, ret |-> NoJobReturn]

\* CrawlExecutionParams built from a CrawlRequest: the request has no
\* cache_backend, so the default "local" stays
ParamsOf(request) ==
    JobParams(request.region, request.max_pages, request.use_cache, LocalName,
              request.cache_ttl_minutes)

\* the except clause without its store of finished_at
Assignments_NoFinishedAt(block) ==
    IF block = "running" THEN << "status", "started_at" >>
    ELSE IF block = "completed"
    THEN << "status", "finished_at", "elapsed_seconds", "result", "error" >>
    ELSE << "status", "elapsed_seconds", "error", "result" >>

\* the keys the task stores into the dict of its job, in the order of the
\* statements, in each of its three blocks under the lock
Assignments(block) ==
    IF block = "running" THEN << "status", "started_at" >>
    ELSE IF block = "completed"
    THEN << "status", "finished_at", "elapsed_seconds", "result", "error" >>
    ELSE << "status", "finished_at", "elapsed_seconds", "error", "result" >>

\* the except clause putting the job back in the queue
Stored_FailedRequeues(block, field, w, clock) ==
    IF field = "status" THEN (IF block = "failed" THEN "queued" ELSE block)
    ELSE IF field = "started_at" THEN Some(clock)
    ELSE IF field = "finished_at" THEN Some(w.finished_at)
    ELSE IF field = "elapsed_seconds"
    THEN (IF block = "completed" THEN Some(w.elapsed) ELSE Some(clock - w.start))
    ELSE IF field = "result"
    THEN (IF block = "completed"
          THEN Some(CrawlResponse(w.ret.source, w.ret.total_records, w.elapsed))
          ELSE None)
    ELSE (IF block = "failed" THEN Some(w.ret.error) ELSE None)

\* the value a statement of a block stores
Stored(block, field, w, clock) ==
    IF field = "status" THEN block
    ELSE IF field = "started_at" THEN Some(clock)
    ELSE IF field = "finished_at" THEN Some(w.finished_at)
    ELSE IF field = "elapsed_seconds"
    THEN (IF block = "completed" THEN Some(w.elapsed) ELSE Some(clock - w.start))
    ELSE IF field = "result"
    THEN (IF block = "completed"
          THEN Some(CrawlResponse(w.ret.source, w.ret.total_records, w.elapsed))
          ELSE None)
    ELSE (IF block = "failed" THEN Some(w.ret.error) ELSE None)

\* a thread that is not given back when its task has ended
Occupies_AfterTheEnd(j) == workers[j].block # "queued"

\* the task of job j occupies a thread of the executor
Occupies(j) == workers[j].block \notin {"queued", "done"}

\* the executor starts the tasks in the order of submission, each on a free
\* thread
MayStart(j) ==
    /\ \A i \in 1..(j - 1) : workers[i].block # "queued"
    /\ Cardinality({ i \in 1..Len(workers) : Occupies(i) }) < max_workers

\* POST /crawl/submit: the dict is stored under the lock and the task handed
\* to the executor
crawl_submit(request) ==
    /\ Len(jobs) < MaxJobs
    /\ jobs_lock = 0
    /\ jobs' = Append(jobs, NewJob(Len(jobs) + 1, now))
    /\ workers' = Append(workers, NewWorker(ParamsOf(request)))
    /\ UNCHANGED << jobs_lock, query, crawl_vars, cache_vars, job_vars, file_vars, call_vars >>

\* _run_crawl_job_async enters one of its blocks "with _jobs_lock" and gets
\* the dict of its job: the first block when the executor starts the task,
\* the block of the try or of the except clause when run_crawl_job has ended
RunAsync_Lock(j) ==
    /\ j \in 1..Len(workers)
    /\ workers[j].block \in {"queued", "finish"}
    /\ workers[j].block = "queued" => MayStart(j)
    /\ jobs_lock = 0
    /\ jobs_lock' = j
    /\ workers' = [workers EXCEPT
                     ![j].block = IF workers[j].block = "queued" THEN "running"
                                  ELSE IF workers[j].ret.kind = "return" THEN "completed"
                                  ELSE "failed",
                     ![j].k = 1]
    /\ UNCHANGED << jobs, query, crawl_vars, cache_vars, job_vars, file_vars, call_vars >>

\* the next statement job[key] = value of the block; the lock is released
\* after the last one, and start = time.perf_counter() follows the first block
RunAsync_Store(j) ==
    /\ j \in 1..Len(workers)
    /\ workers[j].block \in {"running", "completed", "failed"}
    /\ LET w == workers[j]
           fields == Assignments(w.block)
           field == fields[w.k]
       IN  /\ jobs' = [jobs EXCEPT ![j][field] = Stored(w.block, field, w, now)]
           /\ IF w.k < Len(fields)
              THEN /\ workers' = [workers EXCEPT ![j].k = w.k + 1]
                   /\ UNCHANGED jobs_lock
              ELSE /\ workers' = [workers EXCEPT
                                    ![j].block = IF w.block = "running" THEN "run" ELSE "done",
                                    ![j].k = 0,
                                    ![j].start = IF w.block = "running" THEN now ELSE w.start]
                   /\ jobs_lock' = 0
    /\ UNCHANGED << query, crawl_vars, cache_vars, job_vars, file_vars, call_vars >>

\* result = run_crawl_job(params), then the response and finished_at of the
\* try clause, or finished_at of the except clause
RunAsync_Job(j, env) ==
    /\ j \in 1..Len(workers)
    /\ workers[j].block = "run"
    /\ LET w == workers[j]
           end == run_crawl_job(w.params, env, cache_kind, cache_store, sink_file, now)
       IN  /\ job_call' = Some([params |-> w.params, env |-> env,
                                held |-> HeldFor(w.params, cache_kind, cache_store, now)])
           /\ job_ret' = end.ret
           /\ cache_store' = end.store
           /\ sink_file' = end.sink
           /\ drivers_created' = end.created
           /\ drivers_quit' = end.quit
           /\ workers' = [workers EXCEPT ![j].block = "finish", ![j].ret = end.ret,
                                         ![j].elapsed = now - w.start,
                                         ![j].finished_at = now]
    /\ UNCHANGED << jobs, jobs_lock, query, now, cache_kind, cache_op, cache_ret,
                    crawl_vars, file_vars, call_vars >>

\* GET /crawl/jobs/{job_id}, first statement: with _jobs_lock:
\* job = _jobs.get(job_id).  job is the dict itself, not a copy
crawl_job_status_get(job_id) ==
    /\ query.pc \in {"idle", "responded"}
    /\ jobs_lock = 0
    /\ query' = [pc |-> "got", job_id |-> job_id, found |-> job_id \in DOMAIN jobs,
                 code |-> 0, body |-> None]
    /\ UNCHANGED << jobs, jobs_lock, workers, crawl_vars, cache_vars, job_vars, file_vars, call_vars >>

\* the rest of crawl_job_status, outside the lock: 404 when there is no
\* such job, else CrawlJobStatusResponse(**job), which reads the dict as it
\* is at that moment
crawl_job_status_respond ==
    /\ query.pc = "got"
    /\ query' = [query EXCEPT
                   !.pc = "responded",
                   !.code = IF query.found THEN 200 ELSE 404,
                   !.body = IF query.found THEN Some(jobs[query.job_id]) ELSE None]
    /\ UNCHANGED << jobs, jobs_lock, workers, crawl_vars, cache_vars, job_vars, file_vars, call_vars >>

\* the request submitted: region "A", with the cache
ApiRequests ==
    { [region |-> << 65 >>, max_pages |-> None, use_cache |-> TRUE,
       cache_ttl_minutes |-> MaxTtl] }

ApiEnvs == { JobEnv(<< << RowB1, RowA1 >> >>, FALSE, FALSE, FALSE) }

ApiInit ==
    /\ CrawlIdle
    /\ CacheIdle
    /\ JobIdle
    /\ ApiIdle
    /\ FileIdle
    /\ CallIdle

ApiNext ==
    \/ Tick
    \/ \E request \in ApiRequests : crawl_submit(request)
    \/ \E j \in 1..MaxJobs : RunAsync_Lock(j)
    \/ \E j \in 1..MaxJobs : RunAsync_Store(j)
    \/ \E j \in 1..MaxJobs, env \in ApiEnvs : RunAsync_Job(j, env)
    \/ \E job_id \in 1..MaxJobs : crawl_job_status_get(job_id)
    \/ crawl_job_status_respond

SpecApi == ApiInit /\ [][ApiNext]_vars

(* What the claim on the job records speaks of *)

\* a record between two stores of a block under the lock
HalfUpdated(job) ==
    \/ job.status = "running" /\ job.started_at = None
    \/ /\ job.status = "completed"
       /\ (job.result = None \/ job.finished_at = None \/ job.elapsed_seconds = None)
    \/ /\ job.status = "failed"
       /\ (job.error = None \/ job.finished_at = None \/ job.elapsed_seconds = None)

\* C14 (as the spec states it): a status query never observes a
\* half-updated job record, such as a terminal status without finished_at,
\* "completed" without result or "failed" without error.
C14_Original ==
    (query.pc = "responded" /\ query.code = 200) => ~HalfUpdated(query.body[1])

----------------------------------------------------------------------------
(* The cache file under concurrent load and save (quote_cache.py).  save    *)
(* writes in place: path.write_text opens the file for writing, which       *)
(* empties it, and then writes the text.  load reads with path.read_text,   *)
(* which asks the size of the file and then reads until a read returns      *)
(* nothing.  Each of these system calls is a step, and the steps of a       *)
(* thread in load interleave with those of a thread in save: the process    *)
(* serves requests and jobs on several threads and the cache directory is   *)
(* shared by every process that uses it.  One thread is in save at a time.  *)
(*                                                                          *)
(* A text is a sequence of bytes.  The opening of the object up to          *)
(* "records":[ is one byte that carries created_at, the key and the values  *)
(* of a record are one byte each, and every other byte is itself.           *)

Byte(c) == [c |-> c, at |-> 0, symbol |-> << >>, name |-> << >>, price |-> << >>]

HeadByte(at) == [Byte("head") EXCEPT !.at = at]

ValuesByte(item) ==
    [Byte("v") EXCEPT !.symbol = item.symbol, !.name = item.name, !.price = item.price]

\* {"symbol":"..","name":"..","price":".."} : every record starts with the
\* same bytes
RecordBytes(item) == << Byte("{"), Byte("q"), Byte("k"), ValuesByte(item), Byte("}") >>

RECURSIVE ItemsBytes(_)
ItemsBytes(items) ==
    IF items = << >> THEN << >>
    ELSE IF Len(items) = 1 THEN RecordBytes(items[1])
    ELSE RecordBytes(items[1]) \o << Byte(",") >> \o ItemsBytes(Tail(items))

\* json.dumps(payload, separators=(",", ":")) of the payload save builds
DumpsBytes(payload) ==
    << HeadByte(payload.created_at[1].at) >> \o ItemsBytes(payload.records[1].items)
        \o << Byte("]"), Byte("}") >>

\* json.loads from the array of records on: Some(the entries), or None when
\* the text is no JSON
RECURSIVE LoadsItems(_, _)
LoadsItems(text, after_record) ==
    IF Len(text) = 2 /\ text[1].c = "]" /\ text[2].c = "}" THEN Some(<< >>)
    ELSE LET rest == IF after_record /\ text # << >> /\ text[1].c = ","
                     THEN Tail(text) ELSE text
         IN  IF after_record /\ rest = text THEN None
             ELSE IF Len(rest) < 5 THEN None
             ELSE IF << rest[1].c, rest[2].c, rest[3].c, rest[4].c, rest[5].c >>
                         # << "{", "q", "k", "v", "}" >> THEN None
             ELSE LET more == LoadsItems(SubSeq(rest, 6, Len(rest)), TRUE)
                  IN  IF more = None THEN None
                      ELSE Some(<< AsDict(rest[4]) >> \o more[1])

\* json.loads of the bytes read
LoadsBytes(text) ==
    IF text = << >> \/ text[1].c # "head" THEN None
    ELSE LET items == LoadsItems(Tail(text), FALSE)
         IN  IF items = None THEN None
             ELSE Some(JObject(Some(CACHE_VERSION), Some(<< 65 >>),
                               Some(JCreatedAt("iso", text[1].at, TRUE)),
                               Some(JArray(items[1]))))

\* the record lists saved
SaveLists == { << RowA1 >>, << RowB1, RowA1 >>, << RowC1, RowD1 >> }

\* the longest text of the model
LongestText == DumpsBytes(Snapshot(<< 65 >>, << RowA1, RowB1, RowC1 >>, 0))

\* the size FileIO.readall reads with when the file is empty, and by which
\* it grows a full buffer: more than any text here
SmallChunk == Len(LongestText) + 1

\* the bytes a read system call for want bytes returns at offset pos
ReadAt(file, pos, want) ==
    SubSeq(file, pos + 1, IF pos + want < Len(file) THEN pos + want ELSE Len(file))

\* the record list of the snapshot a file holds, if it holds one
HeldIn(file) ==
    IF file = None \/ LoadsBytes(file[1]) = None THEN {}
    ELSE { [i \in 1..Len(LoadsBytes(file[1])[1].records[1].items) |->
              LET item == LoadsBytes(file[1])[1].records[1].items[i]
              IN  Row(item.symbol, item.name, item.price)] }

\* save, up to the opening of the file: the payload is built and
\* open(path, "w") creates the file or empties it
SaveOpen(records) ==
    /\ saver.pc = "idle"
    /\ saver' = [pc |-> "opened", text |-> DumpsBytes(Snapshot(<< 65 >>, records, now)),
                 records |-> records]
    /\ disk' = Some(<< >>)
    /\ loader' = IF loader.pc \in {"opened", "reading"}
                 THEN [loader EXCEPT !.candidates = @ \cup {records}]
                 ELSE loader
    /\ UNCHANGED << writers, crawl_vars, cache_vars, job_vars, api_vars, call_vars >>

\* save, the write of the text and the return
SaveWrite ==
    /\ saver.pc = "opened"
    /\ disk' = Some(saver.text)
    /\ saver' = NoSave
    /\ UNCHANGED << loader, writers, crawl_vars, cache_vars, job_vars, api_vars, call_vars >>

\* load: if not path.exists(): return None; else read_text opens the file
LoadExists ==
    /\ loader.pc \in {"idle", "returned"}
    /\ loader' = IF disk = None
                 THEN [NoLoad EXCEPT !.pc = "returned", !.ret = ReturnsNone]
                 ELSE [NoLoad EXCEPT
                         !.pc = "opened",
                         !.candidates = HeldIn(disk)
                             \cup (IF saver.pc = "opened" THEN {saver.records} ELSE {})]
    /\ UNCHANGED << disk, saver, writers, crawl_vars, cache_vars, job_vars, api_vars,
                    call_vars >>

\* readall asks the size of the file: the buffer is one byte longer
LoadStat ==
    /\ loader.pc = "opened"
    /\ loader' = [loader EXCEPT
                    !.pc = "reading",
                    !.bufsize = IF Len(disk[1]) > 0 THEN Len(disk[1]) + 1 ELSE SmallChunk]
    /\ UNCHANGED << disk, saver, writers, crawl_vars, cache_vars, job_vars, api_vars,
                    call_vars >>

\* readall reads into what is left of the buffer, after growing a full one;
\* a read that returns nothing ends it, and load goes on with json.loads of
\* what was read (None when that raises) and the checks of the payload
LoadRead ==
    /\ loader.pc = "reading"
    /\ LET pos == Len(loader.data)
           size == IF pos >= loader.bufsize THEN pos + SmallChunk ELSE loader.bufsize
           chunk == ReadAt(disk[1], pos, size - pos)
           payload == LoadsBytes(loader.data)
       IN  loader' =
             IF chunk # << >>
             THEN [loader EXCEPT !.data = @ \o chunk, !.bufsize = size]
             ELSE [loader EXCEPT
                     !.pc = "returned",
                     !.ret = IF payload = None THEN ReturnsNone
                             ELSE ReadSnapshot(payload[1], MaxTtl, now)]
    /\ UNCHANGED << disk, saver, writers, crawl_vars, cache_vars, job_vars, api_vars,
                    call_vars >>

FileInit ==
    /\ CrawlIdle
    /\ CacheIdle
    /\ JobIdle
    /\ ApiIdle
    /\ FileIdle
    /\ CallIdle

FileNext ==
    \/ Tick
    \/ \E records \in SaveLists : SaveOpen(records)
    \/ SaveWrite
    \/ LoadExists
    \/ LoadStat
    \/ LoadRead

SpecCacheFile == FileInit /\ [][FileNext]_vars

\* C13 (as the spec states it): a load concurrent with a save returns
\* absent, the complete snapshot the file held when the load began, or the
\* complete snapshot of a save that ran during the load; never another
\* record list.
C13_Original ==
    loader.pc = "returned"
    => \/ loader.ret.kind = "none"
       \/ loader.ret.kind = "value" /\ loader.ret.value \in loader.candidates

----------------------------------------------------------------------------
(* More on run_crawl_job *)

\* C21 (as the spec states it): with caching disabled the job takes the
\* live path whatever the cache holds: it acquires a Page Source, returns
\* source "live" with the crawled records, and leaves the cache store as it
\* was.
C21_Original ==
    (/\ job_call # None
     /\ ~job_call[1].params.use_cache
     /\ Strip(job_call[1].params.region) # << >>
     /\ ~job_call[1].env.crawl_fails
     /\ ~job_call[1].env.sink_fails)
    => /\ job_ret = CrawlExecutionResult("live", JobCrawled)
       /\ drivers_created = 1
       /\ sink_file = Some(JobCrawled)

----------------------------------------------------------------------------
(* More on the quote caches *)

\* a cache object used from an empty store on by callers that save one of
\* two record lists and load with the largest ttl
RegionsNext ==
    \/ Tick
    \/ \E region \in CacheRegions, records \in { << RowB1, RowA1 >>, << RowC1 >> } :
          CacheSave(region, records)
    \/ \E region \in CacheRegions : CacheLoad(region, MaxTtl)

SpecCacheRegions == CacheInit /\ [][RegionsNext]_vars

\* a step in which save was called
SaveStep == cache_op'.op = "save" /\ (cache_op' # cache_op \/ cache_store' # cache_store)

\* the region loads as before the step, whatever the ttl
LoadsAsBefore(region) ==
    \A ttl_minutes \in TtlArgs :
        CacheLoadResult(cache_kind, cache_store', region, ttl_minutes, now)
            = CacheLoadResult(cache_kind, cache_store, region, ttl_minutes, now)

\* C22 (as the spec states it): for any two different region strings r1 and
\* r2, save(r1, R) leaves the result of load(r2, ttl) unchanged.
C22_Original ==
    [][SaveStep => \A r2 \in CacheRegions : r2 # cache_op'.region => LoadsAsBefore(r2)]_vars

\* C22 (amended): for any two regions whose normalized forms differ,
\* save(r1, R) leaves the result of load(r2, ttl) unchanged, in both backends.
C22_IndependentKeys ==
    [][SaveStep => \A r2 \in CacheRegions :
                      normalize_region(r2) # normalize_region(cache_op'.region)
                      => LoadsAsBefore(r2)]_vars

\* "B" was saved while the store held a snapshot of "A" that loads
C22_Witness ==
    /\ cache_op.op = "save"
    /\ cache_op.region = << 66 >>
    /\ ~cache_op.store_error
    /\ cache_op.records = << RowB1, RowA1 >>
    /\ HasStored(<< 65 >>)
    /\ CacheLoadResult(cache_kind, cache_store, << 65 >>, MaxTtl, now) = Returns(<< RowC1 >>)

(* The key of a region.  save returns the file or the key it wrote, so a    *)
(* cache object asked to save under every short region string shows the     *)
(* derivation.                                                              *)

\* the longest region string
MaxRegionLen == 4

\* "A", "b", "1", " ", "_" and a letter outside ASCII
RegionChars == { 65, 98, 49, 32, 95, 233 }

RegionStrings == UNION { [1..n -> RegionChars] : n \in 0..MaxRegionLen }

\* the first call of a cache object, a save
FirstSave(region) ==
    /\ cache_op = NoCacheCall
    /\ CacheSave(region, << RowA1 >>)

KeysNext == \E region \in RegionStrings : FirstSave(region)

SpecCacheKeys == CacheInit /\ [][KeysNext]_vars

\* the maximal runs of alphanumeric characters of a string, in order
RECURSIVE AlnumRuns(_, _)
AlnumRuns(s, run) ==
    IF s = << >> THEN (IF run = << >> THEN << >> ELSE << run >>)
    ELSE IF IsAlnum(Head(s)) THEN AlnumRuns(Tail(s), Append(run, Head(s)))
    ELSE (IF run = << >> THEN << >> ELSE << run >>) \o AlnumRuns(Tail(s), << >>)

RECURSIVE JoinRuns(_)
JoinRuns(runs) ==
    IF runs = << >> THEN << >>
    ELSE IF Len(runs) = 1 THEN runs[1]
    ELSE runs[1] \o << 95 >> \o JoinRuns(Tail(runs))

\* the key as the claim describes it: the alphanumeric runs of the
\* lower-cased region joined by single "_", or "unknown_region"
DescribedKey(region) ==
    LET key == JoinRuns(AlnumRuns(Lower(region), << >>))
    IN  IF key = << >> THEN UnknownRegion ELSE key

----------------------------------------------------------------------------
(* YahooFinanceClient (yahoo_client.py): how its methods treat the failures *)
(* of the driver.  A call is given the outcome of every interaction with    *)
(* the driver it may make, in order: "ok" or the exception raised.  A call  *)
(* ends returned or raised; tries counts the attempts of a loop that tries  *)
(* again after a timeout, and failed gathers the exceptions the driver      *)
(* raised during the call.                                                  *)

\* for attempt in range(1, 4), and for _ in range(3)
LOAD_ATTEMPTS == 3
MENU_ATTEMPTS == 3

ClientEnd(ret, error, tries, failed) ==
    [ret |-> ret, error |-> error, tries |-> tries, failed |-> failed]

\* the loop of load_page and of _open_region_menu: return on the first
\* attempt that succeeds, go on after a TimeoutException, let any other
\* exception out, and raise the last timeout when every attempt timed out
RECURSIVE RetryTimeouts(_, _, _, _)
RetryTimeouts(outcomes, attempt, attempts, failed) ==
    IF attempt > attempts
    THEN ClientEnd("raised", "TimeoutException", attempts, failed)
    ELSE IF outcomes[attempt] = "ok" THEN ClientEnd("returned", "", attempt, failed)
    ELSE IF outcomes[attempt] = "TimeoutException"
    THEN RetryTimeouts(outcomes, attempt + 1, attempts, failed \cup {"TimeoutException"})
    ELSE ClientEnd("raised", outcomes[attempt], attempt, failed \cup {outcomes[attempt]})

Client_load_page(outcomes) == RetryTimeouts(outcomes, 1, LOAD_ATTEMPTS, {})

Client_open_region_menu(outcomes) == RetryTimeouts(outcomes, 1, MENU_ATTEMPTS, {})

\* the exceptions get_current_page_html and _safe_click answer with another
\* way of doing the same
Absent == { "NoSuchElementException", "StaleElementReferenceException" }
Unclickable == { "ElementClickInterceptedException", "StaleElementReferenceException" }

\* outcomes: the table lookup, driver.page_source
Client_get_current_page_html(outcomes) ==
    IF outcomes[1] = "ok" THEN ClientEnd("returned", "", 1, {})
    ELSE IF outcomes[1] \notin Absent THEN ClientEnd("raised", outcomes[1], 1, {outcomes[1]})
    ELSE IF outcomes[2] = "ok" THEN ClientEnd("returned", "", 1, {outcomes[1]})
    ELSE ClientEnd("raised", outcomes[2], 1, {outcomes[1], outcomes[2]})

\* outcomes: the lookup of the next-page button; without the button the
\* answer is False
Client_has_next_page(outcomes) ==
    IF outcomes[1] \in {"ok", "NoSuchElementException"}
    THEN ClientEnd("returned", "", 1, {outcomes[1]} \ {"ok"})
    ELSE ClientEnd("raised", outcomes[1], 1, {outcomes[1]})

\* outcomes: the lookup of the button, element.click, the click by script,
\* the wait for the page to change, _wait_for_table_ready
Client_go_to_next_page(outcomes) ==
    LET find == outcomes[1]
        click == outcomes[2]
        script == outcomes[3]
        change == outcomes[4]
        ready == outcomes[5]
        by_click == ({click} \cup (IF click \in Unclickable THEN {script} ELSE {})) \ {"ok"}
        by_change == by_click \cup ({change} \ {"ok"})
    IN  IF find # "ok" THEN ClientEnd("raised", find, 1, {find})
        ELSE IF click # "ok" /\ click \notin Unclickable
        THEN ClientEnd("raised", click, 1, by_click)
        ELSE IF click \in Unclickable /\ script # "ok"
        THEN ClientEnd("raised", script, 1, by_click)
        ELSE IF change \notin {"ok", "TimeoutException"}
        THEN ClientEnd("raised", change, 1, by_change)
        ELSE IF ready # "ok" THEN ClientEnd("raised", ready, 1, by_change \cup {ready})
        ELSE ClientEnd("returned", "", 1, by_change)

\* the record of a call that ended
ClientCalled(op, outcomes, end) ==
    [op |-> op, outcomes |-> outcomes, ret |-> end.ret, error |-> end.error,
     tries |-> end.tries, failed |-> end.failed]

LoadPage(outcomes) ==
    /\ client' = ClientCalled("load_page", outcomes, Client_load_page(outcomes))
    /\ UNCHANGED << sync_call, cli_call, crawl_vars, cache_vars, job_vars, api_vars,
                    file_vars >>

OpenRegionMenu(outcomes) ==
    /\ client' = ClientCalled("_open_region_menu", outcomes,
                              Client_open_region_menu(outcomes))
    /\ UNCHANGED << sync_call, cli_call, crawl_vars, cache_vars, job_vars, api_vars,
                    file_vars >>

GetCurrentPageHtml(outcomes) ==
    /\ client' = ClientCalled("get_current_page_html", outcomes,
                              Client_get_current_page_html(outcomes))
    /\ UNCHANGED << sync_call, cli_call, crawl_vars, cache_vars, job_vars, api_vars,
                    file_vars >>

HasNextPage(outcomes) ==
    /\ client' = ClientCalled("has_next_page", outcomes, Client_has_next_page(outcomes))
    /\ UNCHANGED << sync_call, cli_call, crawl_vars, cache_vars, job_vars, api_vars,
                    file_vars >>

GoToNextPage(outcomes) ==
    /\ client' = ClientCalled("go_to_next_page", outcomes,
                              Client_go_to_next_page(outcomes))
    /\ UNCHANGED << sync_call, cli_call, crawl_vars, cache_vars, job_vars, api_vars,
                    file_vars >>

\* what an attempt to load the page or to open the menu ends with
AttemptOutcomes == { "ok", "TimeoutException", "WebDriverException" }

ClientInit ==
    /\ CrawlIdle
    /\ CacheIdle
    /\ JobIdle
    /\ ApiIdle
    /\ FileIdle
    /\ CallIdle

ClientNext ==
    \/ \E outcomes \in [1..LOAD_ATTEMPTS -> AttemptOutcomes] : LoadPage(outcomes)
    \/ \E outcomes \in [1..MENU_ATTEMPTS -> AttemptOutcomes] : OpenRegionMenu(outcomes)
    \/ \E table \in {"ok", "NoSuchElementException", "WebDriverException"},
          source \in {"ok", "WebDriverException"} :
          GetCurrentPageHtml(<< table, source >>)
    \/ \E find \in {"ok", "NoSuchElementException", "WebDriverException"} :
          HasNextPage(<< find >>)
    \/ \E find \in {"ok", "NoSuchElementException"},
          click \in {"ok", "ElementClickInterceptedException",
                     "StaleElementReferenceException", "WebDriverException"},
          script \in {"ok", "WebDriverException"},
          change \in {"ok", "TimeoutException"},
          ready \in {"ok", "TimeoutException"} :
          GoToNextPage(<< find, click, script, change, ready >>)

SpecClient == ClientInit /\ [][ClientNext]_vars

\* a timeout or a failure of the driver as such
SourceFailures == { "TimeoutException", "WebDriverException" }

\* C26 (as the spec states it): only load_page tries again after a failure,
\* three times at most, returning on the first attempt that succeeds and
\* raising the last timeout when all three timed out; in every other call of
\* the client a timeout or driver failure is never followed by another
\* attempt and is raised to crawl.
C26_Original ==
    /\ client.op = "load_page"
       => /\ client.tries <= 3
          /\ \A i \in 1..3 :
                (client.outcomes[i] = "ok"
                    /\ \A j \in 1..(i - 1) : client.outcomes[j] = "TimeoutException")
                => (client.ret = "returned" /\ client.tries = i)
          /\ (\A i \in 1..3 : client.outcomes[i] = "TimeoutException")
             => (client.ret = "raised" /\ client.error = "TimeoutException")
    /\ client.op \notin {"none", "load_page"}
       => /\ client.tries <= 1
          /\ client.failed \cap SourceFailures # {} => client.ret = "raised"

----------------------------------------------------------------------------
(* The callers of run_crawl_job: POST /crawl, the executor task of          *)
(* POST /crawl/submit and the command line.  Each builds                    *)
(* CrawlExecutionParams, calls run_crawl_job and turns its end into a       *)
(* response, a job dict or an exit code.  An exception is held by its       *)
(* message, which is what str(exc) gives.                                   *)

\* the defaults of CrawlRequest.cache_ttl_minutes, of --cache-ttl-minutes
\* and of CrawlExecutionParams.cache_ttl_minutes
DEFAULT_TTL_MINUTES == 30

\* the defaults of CrawlExecutionParams and of the command line
DEFAULT_REDIS_URL == "redis://localhost:6379/0"
DEFAULT_REDIS_KEY_PREFIX == "yahoo_crawler:quotes"

\* a handler that answers 500 without the message of the exception
HTTPException_NoMessage(exc) == [code |-> 500, detail |-> "Internal Server Error"]

\* raise HTTPException(status_code=500, detail=str(exc))
HTTPException(exc) == [code |-> 500, detail |-> exc]

\* the CrawlResponse of POST /crawl goes out with status 200
SyncResponse(ret) == IF ret.kind = "return" THEN [code |-> 200, detail |-> ""]
                     ELSE HTTPException(ret.error)

\* main: return 0 after the try clause, return 1 in except Exception
ExitCode(ret) == IF ret.kind = "return" THEN 0 ELSE 1

\* POST /crawl: the params come from the request alone; redis_url and
\* redis_key_prefix are not passed and keep the defaults of the dataclass.
\* The handler reads no environment variable
crawl(request, environ, env) ==
    /\ ~sync_call.called
    /\ LET params == ParamsOf(request)
           end == run_crawl_job(params, env, cache_kind, cache_store, sink_file, now)
           response == SyncResponse(end.ret)
       IN  /\ job_call' = Some([params |-> params, env |-> env,
                                held |-> HeldFor(params, cache_kind, cache_store, now)])
           /\ job_ret' = end.ret
           /\ cache_store' = end.store
           /\ sink_file' = end.sink
           /\ drivers_created' = end.created
           /\ drivers_quit' = end.quit
           /\ sync_call' = [called |-> TRUE, environ |-> environ,
                            cache_ttl_minutes |-> params.cache_ttl_minutes,
                            redis_url |-> DEFAULT_REDIS_URL,
                            redis_key_prefix |-> DEFAULT_REDIS_KEY_PREFIX,
                            code |-> response.code, detail |-> response.detail]
    /\ UNCHANGED << now, cache_kind, cache_op, cache_ret, client, cli_call,
                    crawl_vars, api_vars, file_vars >>

\* python -m yahoo_crawler.cli: the params come from the arguments, whose
\* defaults argparse fills in
main(args, environ, env) ==
    /\ ~cli_call.called
    /\ LET params == JobParams(args.region, args.max_pages, args.use_cache, LocalName,
                               args.cache_ttl_minutes)
           end == run_crawl_job(params, env, cache_kind, cache_store, sink_file, now)
       IN  /\ job_call' = Some([params |-> params, env |-> env,
                                held |-> HeldFor(params, cache_kind, cache_store, now)])
           /\ job_ret' = end.ret
           /\ cache_store' = end.store
           /\ sink_file' = end.sink
           /\ drivers_created' = end.created
           /\ drivers_quit' = end.quit
           /\ cli_call' = [called |-> TRUE, environ |-> environ,
                           cache_ttl_minutes |-> params.cache_ttl_minutes,
                           redis_url |-> args.redis_url,
                           redis_key_prefix |-> args.redis_key_prefix,
                           code |-> ExitCode(end.ret), detail |-> end.ret.error]
    /\ UNCHANGED << now, cache_kind, cache_op, cache_ret, client, sync_call,
                    crawl_vars, api_vars, file_vars >>

\* the requests of POST /crawl: region "A" or blank with the cache, the
\* field cache_ttl_minutes left out
FrontRequests ==
    { [region |-> region, max_pages |-> None, use_cache |-> TRUE,
       cache_ttl_minutes |-> DEFAULT_TTL_MINUTES] :
        region \in { << 65 >>, << 32 >> } }

\* the command lines: --redis-url and --redis-key-prefix left out or given
FrontArgs ==
    { [region |-> << 65 >>, max_pages |-> None, use_cache |-> TRUE,
       cache_ttl_minutes |-> DEFAULT_TTL_MINUTES, redis_url |-> given[1],
       redis_key_prefix |-> given[2]] :
        given \in { << DEFAULT_REDIS_URL, DEFAULT_REDIS_KEY_PREFIX >>,
                    << "redis://localhost:6379/2", "verx:prod" >> } }

\* the environment of the process: the three variables unset, or set as
\* tests/test_api.py sets them
Environs ==
    { Environ(None, None, None),
      Environ(Some(15), Some("redis://localhost:6379/9"), Some("verx:cache")) }

FrontEnvs ==
    { JobEnv(<< << RowB1, RowA1 >> >>, crawl_fails, FALSE, FALSE) :
        crawl_fails \in BOOLEAN }

FrontNext ==
    \/ \E request \in FrontRequests, environ \in Environs, env \in FrontEnvs :
          crawl(request, environ, env)
    \/ \E args \in FrontArgs, environ \in Environs, env \in FrontEnvs :
          main(args, environ, env)
    \/ \E request \in ApiRequests : crawl_submit(request)
    \/ \E j \in 1..MaxJobs : RunAsync_Lock(j)
    \/ \E j \in 1..MaxJobs : RunAsync_Store(j)
    \/ \E j \in 1..MaxJobs, env \in FrontEnvs : RunAsync_Job(j, env)

SpecFront == ApiInit /\ [][FrontNext]_vars


\* the task of job j has ended and run_crawl_job raised in it
JobFailed(j) == workers[j].block = "done" /\ workers[j].ret.kind = "raise"

\* a step that is a call of POST /crawl, of the command line
SyncStep == ~sync_call.called /\ sync_call'.called
CliStep == ~cli_call.called /\ cli_call'.called

\* C27: a failed job surfaces the message of the exception verbatim: when
\* run_crawl_job raises with message m, POST /crawl fails with HTTP 500 and
\* detail m, the job of POST /crawl/submit ends with status "failed",
\* error m and no result, and the command line returns 1; it returns 0 only
\* when the job returned.
C27_ErrorSurfaced ==
    /\ [](\A j \in 1..Len(workers) :
            JobFailed(j) => /\ jobs[j].status = "failed"
                            /\ jobs[j].error = Some(workers[j].ret.error)
                            /\ jobs[j].result = None)
    /\ [][(SyncStep /\ job_ret'.kind = "raise")
             => (sync_call'.code = 500 /\ sync_call'.detail = job_ret'.error)]_vars
    /\ [][CliStep => /\ job_ret'.kind = "raise" => cli_call'.code = 1
                     /\ cli_call'.code = 0 => job_ret'.kind = "return"]_vars

\* the three callers have each seen run_crawl_job raise TypeError
C27_Witness ==
    /\ sync_call.called /\ sync_call.code = 500 /\ sync_call.detail = "TypeError"
    /\ cli_call.called /\ cli_call.code = 1
    /\ \E j \in 1..Len(workers) :
          /\ JobFailed(j)
          /\ jobs[j].status = "failed"
          /\ jobs[j].error = Some("TypeError")
          /\ jobs[j].result = None


\* the value a setting takes from an environment variable, or its default
FromEnviron(variable, default) == IF variable = None THEN default ELSE variable[1]

\* C28: POST /crawl builds the executor parameters with cache_ttl_minutes,
\* redis_url and redis_key_prefix taken from YAHOO_CRAWLER_CACHE_TTL_MINUTES,
\* YAHOO_CRAWLER_REDIS_URL and YAHOO_CRAWLER_REDIS_KEY_PREFIX when they are
\* set, and with 30, "redis://localhost:6379/0" and "yahoo_crawler:quotes"
\* when they are unset.
C28_Original ==
    sync_call.called
    => LET environ == sync_call.environ
       IN  /\ sync_call.cache_ttl_minutes
                = FromEnviron(environ.YAHOO_CRAWLER_CACHE_TTL_MINUTES, DEFAULT_TTL_MINUTES)
           /\ sync_call.redis_url
                = FromEnviron(environ.YAHOO_CRAWLER_REDIS_URL, DEFAULT_REDIS_URL)
           /\ sync_call.redis_key_prefix
                = FromEnviron(environ.YAHOO_CRAWLER_REDIS_KEY_PREFIX,
                              DEFAULT_REDIS_KEY_PREFIX)

----------------------------------------------------------------------------
(* Two threads in QuoteCache.save of one region at once.  Each builds its   *)
(* payload, opens the file for writing, which empties it, and writes its    *)
(* text at the start of the file through its own descriptor; the texts of   *)
(* the model fit the buffer of the file object, so each is written by one   *)
(* system call.  A write over a longer text leaves the rest of that text    *)
(* in place.  RedisQuoteCache.save stores with one SET, which the server    *)
(* runs as a whole (CacheSave).                                             *)

\* the file after a write of text at offset 0
WriteAtStart(file, text) == text \o SubSeq(file, Len(text) + 1, Len(file))

\* save of thread t, up to the opening of the file
WriteTextOpen(t, records) ==
    /\ writers[t].pc = "idle"
    /\ writers' = [writers EXCEPT
                     ![t] = [pc |-> "opened", records |-> records, at |-> now, order |-> 0,
                             text |-> DumpsBytes(Snapshot(<< 65 >>, records, now))]]
    /\ disk' = Some(<< >>)
    /\ UNCHANGED << saver, loader, crawl_vars, cache_vars, job_vars, api_vars, call_vars >>

\* save of thread t, the write of the text and the return; order counts the
\* saves in the order they return
WriteTextWrite(t) ==
    /\ writers[t].pc = "opened"
    /\ disk' = Some(WriteAtStart(disk[1], writers[t].text))
    /\ writers' = [writers EXCEPT
                     ![t].pc = "done",
                     ![t].order = 1 + Cardinality({ u \in SaveThreads :
                                                      writers[u].pc = "done" })]
    /\ UNCHANGED << saver, loader, crawl_vars, cache_vars, job_vars, api_vars, call_vars >>

\* a load of the region after the saves have returned, with the largest ttl
LoadAfterSaves ==
    /\ \A t \in SaveThreads : writers[t].pc = "done"
    /\ LET payload == LoadsBytes(disk[1])
       IN  loader' = [NoLoad EXCEPT
                        !.pc = "returned",
                        !.data = disk[1],
                        !.ret = IF payload = None THEN ReturnsNone
                                ELSE ReadSnapshot(payload[1], MaxTtl, now)]
    /\ UNCHANGED << disk, saver, writers, crawl_vars, cache_vars, job_vars, api_vars,
                    call_vars >>

SaveRaceNext ==
    \/ Tick
    \/ \E t \in SaveThreads, records \in SaveLists : WriteTextOpen(t, records)
    \/ \E t \in SaveThreads : WriteTextWrite(t)
    \/ LoadAfterSaves

SpecSaveRace == FileInit /\ [][SaveRaceNext]_vars

\* the saves have all returned; the one that returned last
SavesDone == \A t \in SaveThreads : writers[t].pc = "done"
LastWriter == CHOOSE t \in SaveThreads : writers[t].order = Len(writers)

\* C23 (as the spec states it): same-region save races are last-writer-wins:
\* once two concurrent saves of a region have both completed, the stored
\* snapshot is exactly the complete payload of the one whose write finished
\* last, never a mixture, and a following load within the TTL returns that
\* writer's records.
C23_Original ==
    SavesDone
    => /\ disk = Some(writers[LastWriter].text)
       /\ (/\ loader.pc = "returned"
           /\ ~Expired(UtcNow(writers[LastWriter].at), MaxTtl, now))
          => loader.ret = Returns(writers[LastWriter].records)

----------------------------------------------------------------------------
(* Several calls of crawl: a call made again on the ScreenerCrawler a call  *)
(* has ended on, and a second call under way at the same time, as when two  *)
(* jobs run on the threads of the executor, each with its own client.       *)
(* by_symbol, parsed_pages_cache, page_number and last_signature are        *)
(* locals of the call; the object holds its client and its parser only.     *)

\* the pages the source serves in these runs
CallsPool == { << RowB1, RowA1 >>, << RowA2 >>, << RowNoSymbol, RowC1 >> }

CallsInit ==
    /\ CrawlInit
    /\ \A i \in 1..Len(pages) : pages[i] \in CallsPool

\* crawl called on the object after a call has ended: load_page leads to
\* the first page again, and the locals are set anew
CrawlAgain(mp) ==
    /\ crawl_pc \in {"returned", "raised"}
    /\ max_pages' = mp
    /\ SetLocals(InitialLocals)
    /\ UNCHANGED << pages, loop_to, crawl_region, crawl_error, other, cache_vars, job_vars,
                    api_vars, file_vars, call_vars >>

\* the second call, up to its loop
OtherCall(mp) ==
    /\ other.L.pc \in {"idle", "returned"}
    /\ other' = [L |-> InitialLocals, max_pages |-> mp]
    /\ UNCHANGED << pages, loop_to, src_index, crawl_region, max_pages, crawl_pc,
                    crawl_error, by_symbol, parsed_pages_cache, page_number,
                    last_signature, crawl_result, next_page_calls, fetch_calls,
                    parse_calls, visited, cache_vars, job_vars, api_vars, file_vars,
                    call_vars >>

\* one pass of the loop of the second call
OtherPass ==
    /\ other.L.pc = "loop"
    /\ other' = [other EXCEPT !.L = LoopPass(other.L, pages, loop_to, other.max_pages)]
    /\ UNCHANGED << pages, loop_to, src_index, crawl_region, max_pages, crawl_pc,
                    crawl_error, by_symbol, parsed_pages_cache, page_number,
                    last_signature, crawl_result, next_page_calls, fetch_calls,
                    parse_calls, visited, cache_vars, job_vars, api_vars, file_vars,
                    call_vars >>

CallsNext ==
    \/ \E mp \in MaxPagesArgs : CrawlCall(<< 65 >>, mp)
    \/ CrawlPass
    \/ CrawlPassFails
    \/ \E mp \in MaxPagesArgs : CrawlAgain(mp)
    \/ \E mp \in MaxPagesArgs : OtherCall(mp)
    \/ OtherPass

SpecCrawlCalls == CallsInit /\ [][CallsNext]_vars

\* the list that the page contents a call has seen determine: the first
\* record of each symbol, by symbol
ObservedResult(contents) ==
    LET quotes == Flatten([i \in 1..Len(contents) |-> parse_quotes(contents[i])])
        symbols == Sorted(SymbolsOf(quotes))
    IN  [i \in 1..Len(symbols) |-> FirstOccurrence(quotes, symbols[i])]

\* C24: the list a call of crawl returns is a function of the page contents
\* (and has_next answers) the call itself has seen: calls that see the same
\* sequence return the same list, and the accumulator, parse cache, last
\* signature and page number of an earlier call on the same object, or of a
\* call under way at the same time, have no influence on it.
C24_ObservedOnly ==
    /\ crawl_pc = "returned" => crawl_result = ObservedResult(visited)
    /\ other.L.pc = "returned" => other.L.result = ObservedResult(other.L.visited)

\* two calls have returned, one stopped after the first page by its limit
\* and one that went on: each with the list of the pages it saw
C24_Witness ==
    /\ crawl_pc = "returned" /\ max_pages = Some(1) /\ Len(visited) = 1
    /\ other.L.pc = "returned" /\ Len(other.L.visited) > 1
    /\ SymbolsOf(other.L.result) \ SymbolsOf(crawl_result) # {}
    /\ crawl_result = ObservedResult(visited)
    /\ other.L.result = ObservedResult(other.L.visited)

----------------------------------------------------------------------------
(* More on the loop-guard *)

\* a pass of the loop in which no call of the Page Source raises, on a
\* page whose predecessor is still on record
GuardedPass ==
    /\ crawl_pc = "loop"
    /\ crawl_pc' \in {"loop", "returned"}
    /\ fetch_calls < MaxCount
    /\ fetch_calls' = fetch_calls + 1

\* the page the pass fetches, and what has_next answers on it
PageOfPass == get_current_page_html(pages, src_index)
HasNextOfPass == has_next_page(pages, loop_to, src_index)

\* the signature of the page is not empty, is that of the page before it
\* and has_next is true
GuardFires ==
    /\ Signature(parse_quotes(PageOfPass)) # << >>
    /\ visited # << >>
    /\ Signature(parse_quotes(PageOfPass)) = Signature(parse_quotes(visited[Len(visited)]))
    /\ HasNextOfPass

\* C29: the loop-guard fires on page k exactly when the signature of the
\* page (the symbols of its first 3 parsed records, in order) is not empty,
\* equals that of page k-1 and has_next is true.  It comes before the
\* max_pages and has_next checks: it ends the call whatever max_pages is,
\* with no advance and no further fetch, and with the records of page k,
\* those beyond the first 3 too, merged into the list returned.  Without it
\* a page that is under the limit and has a next page is followed by an
\* advance.
C29_GuardShape ==
    [][GuardedPass
         => /\ GuardFires
                => /\ crawl_pc' = "returned"
                   /\ next_page_calls' = next_page_calls
                   /\ SymbolsOf(parse_quotes(PageOfPass)) \subseteq SymbolsOf(crawl_result')
            /\ (~GuardFires /\ ~LimitReached(max_pages, page_number) /\ HasNextOfPass)
                => /\ crawl_pc' = "loop"
                   /\ next_page_calls' = next_page_calls + 1
                   /\ last_signature' = Some(Signature(parse_quotes(PageOfPass)))]_vars

\* the guard has ended a call with no limit on its second page, whose
\* first three symbols are those of the first page and whose fourth record
\* is new: the record is in the list returned
C29_Witness ==
    /\ crawl_pc = "returned"
    /\ max_pages = None
    /\ visited = << << RowA1, RowB1, RowC1, RowD1 >>, << RowA1, RowB1, RowC1, RowE1 >> >>
    /\ has_next_page(pages, loop_to, src_index)
    /\ fetch_calls = 2
    /\ next_page_calls = 1
    /\ \E i \in 1..Len(crawl_result) : crawl_result[i] = RowE1

----------------------------------------------------------------------------
(* The two backends side by side: a cache object of either kind over a      *)
(* store that holds one text of any shape for region "A", saved to and      *)
(* loaded from.                                                             *)

ContractNext ==
    \/ Tick
    \/ \E records \in { << RowB1, RowA1 >>, << RowPadded >> } : CacheSave(<< 65 >>, records)
    \/ \E region \in { << 65 >>, << 66 >> }, ttl_minutes \in TtlArgs :
          CacheLoad(region, ttl_minutes)

SpecCacheContract == StoredInit /\ [][ContractNext]_vars

\* the other backend, and its store holding the texts this store holds
OtherKind == IF cache_kind = "local" THEN "redis" ELSE "local"

Mirrored(store) ==
    LET held == { region \in CacheRegions : StoreName(cache_kind, region) \in DOMAIN store }
    IN  [name \in { StoreName(OtherKind, region) : region \in held } |->
            store[StoreName(cache_kind,
                            CHOOSE region \in held : StoreName(OtherKind, region) = name)]]

\* the last call was served by the store
Served(op) == cache_op.op = op /\ ~cache_op.store_error

\* C30: the file backend and the Redis backend implement one contract:
\* from the same stored payload, or from no entry, at the same time and
\* with the same region and ttl, load returns the same value from both, and
\* save of the same records stores the same payload (version, region,
\* created_at, records) in both.
C30_OneContract ==
    /\ Served("load")
       => cache_ret = CacheLoadResult(OtherKind, Mirrored(cache_store), cache_op.region,
                                      cache_op.ttl_minutes, cache_op.at)
    /\ Served("save")
       => LET name == StoreName(cache_kind, cache_op.region)
              there == CacheSaveResult(OtherKind, Mirrored(cache_store), cache_op.region,
                                       cache_op.records, cache_op.at)
          IN  /\ name \in DOMAIN cache_store
              /\ Loads(cache_store[name])
                    = Some(Snapshot(cache_op.region, cache_op.records, cache_op.at))
              /\ Loads(there[StoreName(OtherKind, cache_op.region)]) = Loads(cache_store[name])

\* the Redis backend has loaded from an empty payload, which it tests for
\* itself: absent, as the file backend answers for an empty file
C30_Witness ==
    /\ cache_kind = "redis"
    /\ Served("load")
    /\ cache_op.region = << 65 >>
    /\ cache_store[cache_key(<< 65 >>)] = EmptyText
    /\ cache_ret = ReturnsNone
    /\ QuoteCache_load(Mirrored(cache_store), << 65 >>, cache_op.ttl_minutes, cache_op.at)
          = ReturnsNone

----------------------------------------------------------------------------
(* The configuration of run_crawl_job *)

\* C31 (as the spec states it): for params with a non-empty region and a
\* recognized cache backend, run_crawl_job does not fail while building its
\* configuration: CrawlerConfig accepts every field it is passed,
\* cache_backend and cache_dir among them, and the call reaches the cache
\* lookup or the acquisition of the Page Source.
C31_Original ==
    (/\ job_call # None
     /\ Strip(job_call[1].params.region) # << >>
     /\ NormalizedBackend(job_call[1].params.cache_backend) \in { LocalName, RedisName })
    => /\ CrawlerConfigAccepts(ConfigKwargs)
       /\ \/ drivers_created = 1
          \/ job_call[1].params.use_cache /\ job_call[1].held.kind # "none"

----------------------------------------------------------------------------
(* The life of a job record *)

\* the steps a status may take
StatusMoves ==
    { << "queued", "running" >>, << "running", "completed" >>, << "running", "failed" >> }

\* C32: the status of a job only moves forward along queued -> running ->
\* (completed | failed): the job is stored as queued when its task is handed
\* to the executor, so that the task finds its record; a terminal status
\* never changes again, and no job goes from queued to a terminal status or
\* back to an earlier one.
C32_StatusForward ==
    /\ [](\A j \in 1..Len(workers) : j \in DOMAIN jobs)
    /\ [][/\ \A j \in 1..Len(jobs) :
               /\ j \in DOMAIN jobs'
               /\ \/ jobs'[j].status = jobs[j].status
                  \/ << jobs[j].status, jobs'[j].status >> \in StatusMoves
          /\ \A j \in (Len(jobs) + 1)..Len(jobs') :
               jobs'[j].status = "queued" /\ workers'[j].block = "queued"]_vars

\* one job has gone all the way to failed while another still waits
C32_Witness ==
    \E i, j \in 1..Len(jobs) :
        /\ jobs[i].status = "failed" /\ workers[i].block = "done"
        /\ jobs[i].started_at # None
        /\ jobs[j].status = "queued"


\* the fields of a job record fit its status
ConsistentJob(job) ==
    /\ job.started_at # None <=> job.status \in {"running", "completed", "failed"}
    /\ job.finished_at # None <=> job.status \in {"completed", "failed"}
    /\ job.elapsed_seconds # None <=> job.status \in {"completed", "failed"}
    /\ job.result # None <=> job.status = "completed"
    /\ job.error # None <=> job.status = "failed"

\* C33: whenever the jobs lock is free every job record is consistent with
\* its status: started_at is set iff the status is running, completed or
\* failed; finished_at and elapsed_seconds are set iff it is completed or
\* failed; result is set iff it is completed; error is set iff it is failed.
C33_ConsistentWhenUnlocked ==
    jobs_lock = 0 => \A j \in 1..Len(jobs) : ConsistentJob(jobs[j])

\* the lock is free with one job failed and another running
C33_Witness ==
    /\ jobs_lock = 0
    /\ \E i, j \in 1..Len(jobs) :
          /\ jobs[i].status = "failed" /\ jobs[i].error # None /\ jobs[i].finished_at # None
          /\ jobs[j].status = "running" /\ jobs[j].started_at # None
          /\ jobs[j].finished_at = None

----------------------------------------------------------------------------
(* More jobs than threads: the executor has two threads, and a task waits   *)
(* in its queue until one of them is free.  The threads run: a task that    *)
(* can take its next step takes it, and a lock that is free is acquired.    *)

\* jobs submitted in a run of this model
MaxQueued == 3

\* POST /crawl/submit, up to MaxQueued times
crawl_submit_queued(request) ==
    /\ Len(jobs) < MaxQueued
    /\ jobs_lock = 0
    /\ jobs' = Append(jobs, NewJob(Len(jobs) + 1, now))
    /\ workers' = Append(workers, NewWorker(ParamsOf(request)))
    /\ UNCHANGED << jobs_lock, query, crawl_vars, cache_vars, job_vars, file_vars,
                    call_vars >>

PoolNext ==
    \/ \E request \in ApiRequests : crawl_submit_queued(request)
    \/ \E j \in 1..MaxQueued : RunAsync_Lock(j)
    \/ \E j \in 1..MaxQueued : RunAsync_Store(j)
    \/ \E j \in 1..MaxQueued, env \in ApiEnvs : RunAsync_Job(j, env)

FairSpecPool ==
    /\ ApiInit
    /\ [][PoolNext]_vars
    /\ \A j \in 1..MaxQueued :
          /\ WF_vars(RunAsync_Lock(j))
          /\ WF_vars(RunAsync_Store(j))
          /\ WF_vars(\E env \in ApiEnvs : RunAsync_Job(j, env))

Submitted(j) == j \in DOMAIN jobs
Terminal(j) == j \in DOMAIN jobs /\ jobs[j].status \in {"completed", "failed"}

\* C34: every submitted job eventually reaches status completed or failed,
\* given that each run_crawl_job call returns or raises and that the two
\* threads of the pool are scheduled fairly: no job stays queued or running
\* forever, however many jobs are submitted and however the others end.
C34_EveryJobEnds == \A j \in 1..MaxQueued : Submitted(j) ~> Terminal(j)

\* the third job, which had to wait for a thread, has ended
C34_Witness ==
    /\ Len(jobs) >= 3
    /\ \A j \in 1..3 : Terminal(j) /\ workers[j].block = "done"
    /\ jobs_lock = 0

----------------------------------------------------------------------------
(* Termination of crawl with max_pages unset *)

\* a call with no limit is in its loop
Unlimited == crawl_pc = "loop" /\ max_pages = None

\* the source has stopped advancing: next leads from its last page to that
\* page again, has_next true
StuckSource == loop_to = Len(pages)

\* C35 (as the spec states it): with max_pages unset crawl terminates
\* whenever the Page Source stops advancing, that is keeps serving the same
\* page content with has_next true, also when that content parses to zero
\* records.
C35_Original == (Unlimited /\ StuckSource) ~> (crawl_pc \in {"returned", "raised"})

\* C35 as amended: the same, when the content served again and again
\* parses to at least one record
C35_TerminatesWhenStuckOnRecords ==
    (Unlimited /\ StuckSource /\ Signature(parse_quotes(pages[Len(pages)])) # << >>)
        ~> (crawl_pc \in {"returned", "raised"})

\* a source of one page with records that leads to itself: the call has
\* returned after fetching it twice
C35_Witness ==
    /\ crawl_pc = "returned"
    /\ max_pages = None
    /\ Len(pages) = 1 /\ loop_to = 1
    /\ parse_quotes(pages[1]) # << >>
    /\ fetch_calls = 2
    /\ next_page_calls = 1


\* every page of the source parses to at least one record
PagesWithRecords ==
    \A i \in 1..Len(pages) : Signature(parse_quotes(pages[i])) # << >>

\* the source ends, or serves some page with records and, next to it, a
\* page of the same signature
EndsOrRepeats ==
    \/ loop_to = 0
    \/ \E i \in 1..Len(pages) :
          /\ Signature(parse_quotes(pages[i])) # << >>
          /\ Signature(parse_quotes(pages[go_to_next_page(pages, loop_to, i)]))
                = Signature(parse_quotes(pages[i]))

\* C36 (as the spec states it): with max_pages unset crawl terminates for
\* every Page Source that serves finitely many distinct page contents, one
\* that cycles through two or more different pages with has_next always
\* true included (here: every page of the cycle has records).
C36_Original == (Unlimited /\ PagesWithRecords) ~> (crawl_pc # "loop")

\* C36 as amended: with max_pages unset crawl terminates for every Page
\* Source that ends (has_next false) or serves two pages one after the
\* other with the same non-empty signature.
C36_TerminatesOnEndOrRepeat == (Unlimited /\ EndsOrRepeats) ~> (crawl_pc # "loop")

\* a source of three pages whose third page is followed by a page of the
\* same signature, the second: the call has returned at the fourth fetch
C36_Witness ==
    /\ crawl_pc = "returned"
    /\ max_pages = None
    /\ Len(pages) = 3 /\ loop_to = 2
    /\ Signature(parse_quotes(pages[1])) # Signature(parse_quotes(pages[2]))
    /\ Signature(parse_quotes(pages[3])) = Signature(parse_quotes(pages[2]))
    /\ Signature(parse_quotes(pages[2])) # << >>
    /\ fetch_calls = 3

----------------------------------------------------------------------------
(* The page limit as a bound on the calls of the Page Source *)

\* the loop-guard fired on the k-th page visited
GuardFiredAt(k) ==
    /\ k > 1
    /\ SignatureAt(k) # << >>
    /\ SignatureAt(k) = SignatureAt(k - 1)
    /\ HasNextAt(k)

\* C37: for every Page Source and every positive max_pages = N, crawl
\* fetches at most N pages and makes at most N-1 advance calls, whatever
\* the has_next answers and the page contents are, at every moment of the
\* call and also when it raises; a call that returns after fewer than N
\* pages was stopped by has_next being false or by the loop-guard.
C37_BoundedByLimit ==
    (crawl_pc # "idle" /\ max_pages # None) =>
        /\ fetch_calls <= max_pages[1]
        /\ next_page_calls <= max_pages[1] - 1
        /\ (crawl_pc = "returned" /\ fetch_calls < max_pages[1]) =>
              \/ ~HasNextAt(fetch_calls)
              \/ GuardFiredAt(fetch_calls)

\* a source that never ends and never repeats a signature, crawled with
\* max_pages = 3: the call returned after 3 fetches and 2 advances with
\* has_next still true
C37_Witness ==
    /\ crawl_pc = "returned"
    /\ max_pages = Some(3)
    /\ loop_to # 0
    /\ fetch_calls = 3
    /\ next_page_calls = 2
    /\ HasNextAt(3)
    /\ ~GuardFiredAt(3)

----------------------------------------------------------------------------
(* run_crawl_job over a snapshot with no records: the region was crawled    *)
(* before and the crawl yielded nothing, or the snapshot was saved empty.   *)

\* "A", caching enabled, either backend, a ttl of 0 or MaxTtl minutes
EmptyJobParamsArgs ==
    { JobParams(<< 65 >>, None, TRUE, cache_backend, cache_ttl_minutes) :
        cache_backend \in { LocalName, RedisName },
        cache_ttl_minutes \in { 0, MaxTtl } }

\* a Page Source of one page, with no row or with one row that parses to
\* no record
EmptyJobEnvs ==
    { JobEnv(ps, crawl_fails, store_fails, sink_fails) :
        ps \in { << << >> >>, << << RowNoName >> >> },
        crawl_fails \in BOOLEAN, store_fails \in BOOLEAN, sink_fails \in BOOLEAN }

EmptyJobNext ==
    \/ Tick
    \/ CacheSave(<< 65 >>, << >>)
    \/ \E params \in EmptyJobParamsArgs, env \in EmptyJobEnvs : RunCrawlJob(params, env)

SpecJobEmpty == CacheInit /\ [][EmptyJobNext]_vars

\* C38 (as the spec states it): a fresh snapshot with zero records counts
\* as a cache hit: run_crawl_job returns source "cache" with total_records
\* 0, writes an output with no record and creates no driver; so a live
\* crawl that yielded no records is served from the cache while the
\* snapshot is fresh.
C38_Original ==
    (/\ JobWithCache
     /\ ~job_call[1].env.store_fails
     /\ ~job_call[1].env.sink_fails
     /\ job_call[1].held = Returns(<< >>))
    => /\ job_ret = CrawlExecutionResult("cache", << >>)
       /\ job_ret.total_records = 0
       /\ sink_file = Some(<< >>)
       /\ drivers_created = 0

----------------------------------------------------------------------------
(* The snapshot of the region across a failed job *)

\* the end of the live part of run_crawl_job (driver, crawl, cache.save,
\* CsvWriter.write, client.close) run in the current state with the cache
\* of the backend in use
LivePartEnd(params, env) ==
    LiveJob(params, env, cache_kind, cache_kind, cache_store, sink_file, now)

====
